---- MODULE Spec2Model ----
(***************************************************************************)
(* A model of the arbitrage detector of FuturesArbitrageBot:               *)
(*   PriceService      (price.service.ts)      the price store             *)
(*   ArbitrageService  (arbitrage.service.ts)  the periodic scan, the      *)
(*                     open/update/close life cycle, the alert cooldown    *)
(*   the 'arbitrage' Bull queue, as the ordered list of the jobs added     *)
(*                                                                         *)
(* Time is Date.now() in milliseconds.  A percentage is the exact rational *)
(* <<numerator, denominator>> of the value the code computes in floating   *)
(* point, and percentages are compared by cross multiplication.            *)
(* A scan is an async function: it runs without interruption between two   *)
(* awaits on the queue (running = its slot) and other tasks run only       *)
(* while it waits for arbitrageQueue.add (running = 0).                    *)
(***************************************************************************)
EXTENDS Integers, Sequences, FiniteSets, TLC

\* ------------------------------------------------------------------ bounds
MaxTicks == 1
MaxScans == 2
MaxOpens == 2
\* with three venues: opportunities opened in a behaviour, and calls of
\* detectArbitrageOpportunities in progress at a time
MaxOpens3 == 3
MaxScans3 == 2
\* calls of updatePrice in a behaviour of the price store
MaxPuts == 3
\* streams the network closes or breaks, and calls of reconnectExchange and
\* onModuleDestroy, in a behaviour of an adapter
MaxFaults == 2
MaxCalls == 1
\* calls of refreshCommonPairs after the start
MaxRefresh == 1
\* calls of notifyFailure in a behaviour
MaxNotify == 3
\* calls of performHealthCheck in a behaviour
MaxProbes == 2

\* clock steps: one minute, and a minute more than two hours
Deltas == {60 * 1000, 2 * 60 * 60 * 1000 + 60 * 1000}

\* ------------------------------------------------------------------ inputs
Exchanges == {"binance", "bybit"}
\* the exchange names in the order Array.prototype.sort puts them
ExchangeOrder == <<"binance", "bybit", "gateio", "lbank", "mexc">>
\* the ticker prices each adapter delivers: spreads of 0.85%, 0.7% and 0
Prices == [binance |-> {1990, 1993, 2007}, bybit |-> {2007}]
\* ticker prices for the close tests: spreads of 0.7%, 0.5% and 23/447% (0.051%)
PricesClose == [binance |-> {799193, 800793, 804393}, bybit |-> {804807}]
\* ticker prices that change the cheaper venue: spreads of 0.85%, 0, and 0.84%
\* the other way
PricesFlip == [binance |-> {1990, 2007, 2024}, bybit |-> {2007}]
\* three venues, with pairwise spreads of 0.85%, 0.84% and 1.69%
Exchanges3 == Exchanges \cup {"gateio"}
Prices3 == [binance |-> {1990}, bybit |-> {2007}, gateio |-> {2024}]

\* ------------------------------------------------------------- configuration
tradingPairs == <<"BTC/USDT">>
\* MIN_EXCHANGES_FOR_PAIR
minExchangeCount == 2
thresholdPercent == <<7, 10>>
closeThresholdPercent == <<5, 10>>
convergedPercent == <<1, 10>>
cooldownMinutes == 5
minProfitUsd == 10
minOpportunityDurationForCloseAlert == 2
maxDuration == 2 * 60 * 60 * 1000
staleSeconds == 60
tradeSize == 1000
attempts == 3
maxHistorySize == 1000
\* PriceService.maxHistorySize, the capacity of the history of a key
priceMaxHistorySize == 100
\* EXCHANGE_FAILURE_COOLDOWN_MINUTES
failureCooldownMinutes == 30

\* ------------------------------------------------------------------ values
NullNum == 0 - 1
NullPct == <<0, 0>>

Abs(x) == IF x < 0 THEN 0 - x ELSE x
PctLT(x, y) == x[1] * y[2] < y[1] * x[2]
PctGT(x, y) == PctLT(y, x)
PctGE(x, y) == ~PctLT(x, y)
PctEQ(x, y) == x[1] * y[2] = y[1] * x[2]
RECURSIVE GCD(_, _)
GCD(a, b) == IF b = 0 THEN a ELSE GCD(b, a % b)
\* the percentage n / d, in lowest terms
Percent(n, d) == LET g == GCD(n, d) IN <<n \div g, d \div g>>
\* Math.floor(x * 10)
PriorityOf(x) == (10 * x[1]) \div x[2]

Rank(e) == CHOOSE i \in 1..Len(ExchangeOrder) : ExchangeOrder[i] = e

VARIABLES
    now,                  \* Date.now()
    ticks,                \* the clock steps taken
    priceStore,           \* PriceService.priceStore, in insertion order
    recentAlerts,         \* ArbitrageService.recentAlerts
    activeOpportunities,  \* ArbitrageService.activeOpportunities, in insertion order
    sendClosedAlerts,     \* config.sendClosedAlerts
    scans,                \* the calls of detectArbitrageOpportunities in progress
    running,              \* the call that holds the thread, 0 when none does
    arbitrageQueue,       \* the jobs the last step added to the queue
    lastJobAt,            \* per id, when its last processOpportunity job was added
    jobsSinceOpen,        \* per id, the processOpportunity jobs added since it was opened
    closedOpportunityHistory,  \* ArbitrageService.closedOpportunityHistory
    nextOid,              \* the number of the next ActiveArbitrageOpportunity object
    priceHistory,         \* PriceService.priceHistory, per key
    putLog,               \* every PriceData handed to updatePrice, in arrival order
    isInitialized,        \* BinanceService.isInitialized
    connections,          \* BinanceService.connections: per symbol its socket, 0 for none
    subscriptions,        \* BinanceService.subscriptions: the symbols that have a callback
    sockets,              \* the WebSocket objects subscribeToTicker has made
    timers,               \* per symbol, the pending setTimeout calls of reconnectTicker
    faults,               \* the streams the network has closed or broken
    calls,                \* the calls of reconnectExchange and onModuleDestroy
    discoveredSymbols,    \* ExchangeService.discoveredSymbols, in insertion order
    exchangeTradingPairs, \* ExchangeService.tradingPairs
    catalogs,             \* what getSymbols gave, per exchange, in the last discovery
    commonPairs,          \* what findCommonUSDTPairs returned in the last discovery
    subscribed,           \* the pairs subscribed on the adapters since their last disconnect
    discoveries,          \* the runs of discoverCommonUSDTPairs
    failureNotifications, \* per adapter, LbankService / MexcService.failureNotifications
    notifyLog,            \* every call of notifyFailure, and whether it sent an alert
    adapters,             \* per exchange, isInitialized and connections.size of its adapter
    probes,               \* the calls of performHealthCheck
    probe                 \* what the last call of performHealthCheck saw and did

\* the history ring of the price store and the record of its puts
storeVars == <<priceHistory, putLog>>

\* an exchange adapter, its sockets and timers
adapterVars == <<isInitialized, connections, subscriptions, sockets, timers,
                 faults, calls>>

\* the discovery of the common pairs
catalogVars == <<discoveredSymbols, exchangeTradingPairs, catalogs, commonPairs,
                 subscribed, discoveries>>

\* the failure notifications of the adapters
notifyVars == <<failureNotifications, notifyLog>>

\* the adapters as the health check sees them
probeVars == <<adapters, probes, probe>>

vars == <<now, ticks, priceStore, recentAlerts, activeOpportunities,
          sendClosedAlerts, scans, running, arbitrageQueue, lastJobAt,
          jobsSinceOpen, closedOpportunityHistory, nextOid, storeVars,
          adapterVars, catalogVars, notifyVars, probeVars>>

\* ------------------------------------------------------------ PriceService
PriceKey(symbol, exchange) == <<symbol, exchange>>

KeyIndex(store, key) ==
    IF \E i \in 1..Len(store) : PriceKey(store[i].symbol, store[i].exchange) = key
    THEN CHOOSE i \in 1..Len(store) : PriceKey(store[i].symbol, store[i].exchange) = key
    ELSE 0

\* a variant that appends every price, the key present or not
updatePriceAppend(store, priceData) == Append(store, priceData)

\* Map.set keeps the position of a key that is present and appends a new one
updatePrice(store, priceData) ==
    LET i == KeyIndex(store, PriceKey(priceData.symbol, priceData.exchange))
    IN  IF i = 0 THEN Append(store, priceData)
        ELSE [store EXCEPT ![i] = priceData]

\* Map.get: the value of the key, undefined (NoPrice) when it has none
NoPrice == <<>>
getPrice(store, symbol, exchange) ==
    LET i == KeyIndex(store, PriceKey(symbol, exchange))
    IN  IF i = 0 THEN NoPrice ELSE store[i]

\* a variant that never shifts
updatePriceHistoryNoShift(history, key, priceData) ==
    [history EXCEPT ![key] = Append(@, priceData)]

\* history.push, then history.shift when longer than maxHistorySize
updatePriceHistory(history, key, priceData) ==
    LET pushed == Append(history[key], priceData)
    IN  [history EXCEPT ![key] =
            IF Len(pushed) > priceMaxHistorySize THEN Tail(pushed) ELSE pushed]

\* priceHistory.get(key) || []
getPriceHistory(history, symbol, exchange) == history[PriceKey(symbol, exchange)]

getAllPricesForSymbol(store, symbol) ==
    SelectSeq(store, LAMBDA p : p.symbol = symbol)

\* a variant for which a price aged exactly staleSeconds is stale
isPriceStaleInclusive(store, symbol, exchange, t) ==
    LET i == KeyIndex(store, PriceKey(symbol, exchange))
    IN  IF i = 0 THEN TRUE
        ELSE (t - store[i].timestamp) >= staleSeconds * 1000

isPriceStale(store, symbol, exchange, t) ==
    LET i == KeyIndex(store, PriceKey(symbol, exchange))
    IN  IF i = 0 THEN TRUE
        ELSE (t - store[i].timestamp) > staleSeconds * 1000

\* --------------------------------------------------------- ArbitrageService
cooldownMs == cooldownMinutes * 60 * 1000

calculateArbitrageOpportunity(priceA, priceB, t) ==
    IF priceA.price <= 0 \/ priceB.price <= 0
    THEN [symbol |-> priceA.symbol, exchangeA |-> priceA.exchange,
          exchangeB |-> priceB.exchange,
          priceA |-> IF priceA.price = 0 THEN NullNum ELSE priceA.price,
          priceB |-> IF priceB.price = 0 THEN NullNum ELSE priceB.price,
          priceDifference |-> NullNum, priceDifferencePercent |-> NullPct,
          profit |-> NullNum, action |-> "INVALID", timestamp |-> t]
    ELSE LET priceDifference == Abs(priceA.price - priceB.price)
         IN  [symbol |-> priceA.symbol, exchangeA |-> priceA.exchange,
              exchangeB |-> priceB.exchange,
              priceA |-> priceA.price, priceB |-> priceB.price,
              priceDifference |-> priceDifference,
              \* (priceDifference / ((a + b) / 2)) * 100
              priceDifferencePercent |->
                  Percent(200 * priceDifference, priceA.price + priceB.price),
              profit |-> priceDifference * tradeSize,
              action |-> IF priceA.price < priceB.price
                         THEN "BUY_A_SELL_B" ELSE "BUY_B_SELL_A",
              timestamp |-> t]

AlertKey(opportunity) ==
    <<opportunity.symbol, opportunity.exchangeA, opportunity.exchangeB>>

\* lastAlert is 0 for a key that recentAlerts does not hold: the code tests
\* the value for truthiness, and so treats undefined and 0 alike
CooldownElapsed(alerts, key, t) ==
    alerts[key] = 0 \/ t - alerts[key] >= cooldownMs

\* a variant that rejects a spread equal to thresholdPercent
isValidArbitrageOpportunityStrict(opportunity, alerts, t) ==
    IF \/ opportunity.action = "INVALID"
       \/ opportunity.priceA = NullNum \/ opportunity.priceB = NullNum
       \/ opportunity.priceDifference = NullNum
       \/ opportunity.priceDifferencePercent = NullPct
       \/ opportunity.profit = NullNum
    THEN FALSE
    ELSE IF ~PctGT(opportunity.priceDifferencePercent, thresholdPercent)
    THEN FALSE
    ELSE IF opportunity.profit < minProfitUsd
    THEN FALSE
    ELSE IF alerts[AlertKey(opportunity)] # 0
            /\ t - alerts[AlertKey(opportunity)] < cooldownMs
    THEN FALSE
    ELSE TRUE

\* a variant without the test of the spread
isValidArbitrageOpportunityAnySpread(opportunity, alerts, t) ==
    IF \/ opportunity.action = "INVALID"
       \/ opportunity.priceA = NullNum \/ opportunity.priceB = NullNum
       \/ opportunity.priceDifference = NullNum
       \/ opportunity.priceDifferencePercent = NullPct
       \/ opportunity.profit = NullNum
    THEN FALSE
    ELSE IF opportunity.profit < minProfitUsd
    THEN FALSE
    ELSE IF alerts[AlertKey(opportunity)] # 0
            /\ t - alerts[AlertKey(opportunity)] < cooldownMs
    THEN FALSE
    ELSE TRUE

isValidArbitrageOpportunity(opportunity, alerts, t) ==
    IF \/ opportunity.action = "INVALID"
       \/ opportunity.priceA = NullNum \/ opportunity.priceB = NullNum
       \/ opportunity.priceDifference = NullNum
       \/ opportunity.priceDifferencePercent = NullPct
       \/ opportunity.profit = NullNum
    THEN FALSE
    ELSE IF PctLT(opportunity.priceDifferencePercent, thresholdPercent)
    THEN FALSE
    ELSE IF opportunity.profit < minProfitUsd
    THEN FALSE
    ELSE IF alerts[AlertKey(opportunity)] # 0
            /\ t - alerts[AlertKey(opportunity)] < cooldownMs
    THEN FALSE
    ELSE TRUE

\* a variant that keeps the order of the price store
generateOpportunityIdUnsorted(opportunity) ==
    <<opportunity.symbol, opportunity.exchangeA, opportunity.exchangeB>>

\* [a, b].sort(): the two exchange names in lexicographic order
generateOpportunityId(opportunity) ==
    IF Rank(opportunity.exchangeA) <= Rank(opportunity.exchangeB)
    THEN <<opportunity.symbol, opportunity.exchangeA, opportunity.exchangeB>>
    ELSE <<opportunity.symbol, opportunity.exchangeB, opportunity.exchangeA>>

\* the pairs (i, j), i < j, of a list of n prices in the order of the two loops
RECURSIVE PairsFrom(_, _, _)
PairsFrom(i, j, n) ==
    IF i >= n THEN <<>>
    ELSE IF j > n THEN PairsFrom(i + 1, i + 2, n)
    ELSE <<<<i, j>>>> \o PairsFrom(i, j + 1, n)

\* a variant that keeps the stale prices
RECURSIVE findForSymbolsKeepStale(_, _, _, _)
findForSymbolsKeepStale(k, store, alerts, t) ==
    IF k > Len(tradingPairs) THEN <<>>
    ELSE LET symbol == tradingPairs[k]
             prices == getAllPricesForSymbol(store, symbol)
             pairs == PairsFrom(1, 2, Len(prices))
             all == [x \in 1..Len(pairs) |->
                        calculateArbitrageOpportunity(
                            prices[pairs[x][1]], prices[pairs[x][2]], t)]
             found == IF Len(prices) < 2 THEN <<>>
                      ELSE SelectSeq(all,
                          LAMBDA o : isValidArbitrageOpportunity(o, alerts, t))
         IN  found \o findForSymbolsKeepStale(k + 1, store, alerts, t)

\* a variant that reports one opportunity for a symbol, the first
RECURSIVE findForSymbolsFirst(_, _, _, _)
findForSymbolsFirst(k, store, alerts, t) ==
    IF k > Len(tradingPairs) THEN <<>>
    ELSE LET symbol == tradingPairs[k]
             prices == getAllPricesForSymbol(store, symbol)
             freshPrices == SelectSeq(prices,
                 LAMBDA p : ~isPriceStale(store, symbol, p.exchange, t))
             pairs == PairsFrom(1, 2, Len(freshPrices))
             all == [x \in 1..Len(pairs) |->
                        calculateArbitrageOpportunity(
                            freshPrices[pairs[x][1]], freshPrices[pairs[x][2]], t)]
             found == IF Len(prices) < 2 \/ Len(freshPrices) < 2 THEN <<>>
                      ELSE SelectSeq(all,
                          LAMBDA o : isValidArbitrageOpportunity(o, alerts, t))
         IN  (IF found = <<>> THEN <<>> ELSE <<Head(found)>>)
                 \o findForSymbolsFirst(k + 1, store, alerts, t)

RECURSIVE findForSymbols(_, _, _, _)
findForSymbols(k, store, alerts, t) ==
    IF k > Len(tradingPairs) THEN <<>>
    ELSE LET symbol == tradingPairs[k]
             prices == getAllPricesForSymbol(store, symbol)
             freshPrices == SelectSeq(prices,
                 LAMBDA p : ~isPriceStale(store, symbol, p.exchange, t))
             pairs == PairsFrom(1, 2, Len(freshPrices))
             all == [x \in 1..Len(pairs) |->
                        calculateArbitrageOpportunity(
                            freshPrices[pairs[x][1]], freshPrices[pairs[x][2]], t)]
             found == IF Len(prices) < 2 \/ Len(freshPrices) < 2 THEN <<>>
                      ELSE SelectSeq(all,
                          LAMBDA o : isValidArbitrageOpportunity(o, alerts, t))
         IN  found \o findForSymbols(k + 1, store, alerts, t)

findArbitrageOpportunities(store, alerts, t) == findForSymbols(1, store, alerts, t)

ActiveIndex(active, id) ==
    IF \E i \in 1..Len(active) : active[i].id = id
    THEN CHOOSE i \in 1..Len(active) : active[i].id = id
    ELSE 0

ActiveDelete(active, id) == SelectSeq(active, LAMBDA a : a.id # id)

\* a variant that leaves the peak as it is
updateActiveOpportunityNoPeak(activeOpportunity, currentOpportunity, t) ==
    [activeOpportunity EXCEPT
        !.priceA = currentOpportunity.priceA,
        !.priceB = currentOpportunity.priceB,
        !.priceDifference = currentOpportunity.priceDifference,
        !.priceDifferencePercent = currentOpportunity.priceDifferencePercent,
        !.profit = currentOpportunity.profit,
        !.lastUpdatedTimestamp = t]

\* a variant that copies the whole current opportunity, its time as the
\* opening time included
updateActiveOpportunityReopen(activeOpportunity, currentOpportunity, t) ==
    LET higher == /\ currentOpportunity.priceDifferencePercent # NullPct
                  /\ PctGT(currentOpportunity.priceDifferencePercent,
                           activeOpportunity.peakPriceDifferencePercent)
    IN  [activeOpportunity EXCEPT
            !.priceA = currentOpportunity.priceA,
            !.priceB = currentOpportunity.priceB,
            !.priceDifference = currentOpportunity.priceDifference,
            !.priceDifferencePercent = currentOpportunity.priceDifferencePercent,
            !.profit = currentOpportunity.profit,
            !.openTimestamp = t,
            !.lastUpdatedTimestamp = t,
            !.peakPriceDifferencePercent =
                IF higher THEN currentOpportunity.priceDifferencePercent ELSE @,
            !.peakProfit =
                IF higher
                THEN (IF currentOpportunity.profit = NullNum THEN 0
                      ELSE currentOpportunity.profit)
                ELSE @,
            !.peakTimestamp = IF higher THEN t ELSE @]

updateActiveOpportunity(activeOpportunity, currentOpportunity, t) ==
    LET higher == /\ currentOpportunity.priceDifferencePercent # NullPct
                  /\ PctGT(currentOpportunity.priceDifferencePercent,
                           activeOpportunity.peakPriceDifferencePercent)
    IN  [activeOpportunity EXCEPT
            !.priceA = currentOpportunity.priceA,
            !.priceB = currentOpportunity.priceB,
            !.priceDifference = currentOpportunity.priceDifference,
            !.priceDifferencePercent = currentOpportunity.priceDifferencePercent,
            !.profit = currentOpportunity.profit,
            !.lastUpdatedTimestamp = t,
            !.peakPriceDifferencePercent =
                IF higher THEN currentOpportunity.priceDifferencePercent ELSE @,
            !.peakProfit =
                IF higher
                THEN (IF currentOpportunity.profit = NullNum THEN 0
                      ELSE currentOpportunity.profit)
                ELSE @,
            !.peakTimestamp = IF higher THEN t ELSE @]

\* the ActiveArbitrageOpportunity of a new opportunity; oid tells the objects
\* that successively stand under one id apart
newActiveOpportunity(opportunity, t, oid) ==
    [symbol |-> opportunity.symbol, exchangeA |-> opportunity.exchangeA,
     exchangeB |-> opportunity.exchangeB,
     priceA |-> opportunity.priceA, priceB |-> opportunity.priceB,
     priceDifference |-> opportunity.priceDifference,
     priceDifferencePercent |-> opportunity.priceDifferencePercent,
     profit |-> opportunity.profit, action |-> opportunity.action,
     timestamp |-> opportunity.timestamp,
     id |-> generateOpportunityId(opportunity),
     openTimestamp |-> t, lastUpdatedTimestamp |-> t,
     peakPriceDifferencePercent |->
         IF opportunity.priceDifferencePercent = NullPct THEN <<0, 1>>
         ELSE opportunity.priceDifferencePercent,
     peakProfit |-> IF opportunity.profit = NullNum THEN 0 ELSE opportunity.profit,
     peakTimestamp |-> t, alertsSent |-> 1, oid |-> oid]

NoOpportunity == <<>>

getCurrentOpportunityState(store, symbol, exchangeA, exchangeB, t) ==
    LET a == KeyIndex(store, PriceKey(symbol, exchangeA))
        b == KeyIndex(store, PriceKey(symbol, exchangeB))
    IN  IF \/ a = 0 \/ b = 0
           \/ isPriceStale(store, symbol, exchangeA, t)
           \/ isPriceStale(store, symbol, exchangeB, t)
        THEN NoOpportunity
        ELSE <<calculateArbitrageOpportunity(store[a], store[b], t)>>

\* a variant that also closes at a spread equal to closeThresholdPercent
shouldCloseOpportunityInclusive(currentOpportunity, activeOpportunity, t) ==
    IF /\ currentOpportunity.priceDifferencePercent # NullPct
       /\ ~PctGT(currentOpportunity.priceDifferencePercent, closeThresholdPercent)
    THEN [close |-> TRUE, reason |-> "BELOW_THRESHOLD"]
    ELSE IF /\ currentOpportunity.priceDifferencePercent # NullPct
            /\ PctLT(currentOpportunity.priceDifferencePercent, convergedPercent)
    THEN [close |-> TRUE, reason |-> "PRICE_CONVERGED"]
    ELSE IF t - activeOpportunity.openTimestamp > maxDuration
    THEN [close |-> TRUE, reason |-> "TIMEOUT"]
    ELSE [close |-> FALSE, reason |-> "BELOW_THRESHOLD"]

\* a variant that tests the convergence before the close threshold
shouldCloseOpportunityConvergedFirst(currentOpportunity, activeOpportunity, t) ==
    IF /\ currentOpportunity.priceDifferencePercent # NullPct
       /\ PctLT(currentOpportunity.priceDifferencePercent, convergedPercent)
    THEN [close |-> TRUE, reason |-> "PRICE_CONVERGED"]
    ELSE IF /\ currentOpportunity.priceDifferencePercent # NullPct
            /\ PctLT(currentOpportunity.priceDifferencePercent, closeThresholdPercent)
    THEN [close |-> TRUE, reason |-> "BELOW_THRESHOLD"]
    ELSE IF t - activeOpportunity.openTimestamp > maxDuration
    THEN [close |-> TRUE, reason |-> "TIMEOUT"]
    ELSE [close |-> FALSE, reason |-> "BELOW_THRESHOLD"]

\* a variant that tests the age before the spread
shouldCloseOpportunityTimeoutFirst(currentOpportunity, activeOpportunity, t) ==
    IF t - activeOpportunity.openTimestamp > maxDuration
    THEN [close |-> TRUE, reason |-> "TIMEOUT"]
    ELSE IF /\ currentOpportunity.priceDifferencePercent # NullPct
            /\ PctLT(currentOpportunity.priceDifferencePercent, closeThresholdPercent)
    THEN [close |-> TRUE, reason |-> "BELOW_THRESHOLD"]
    ELSE IF /\ currentOpportunity.priceDifferencePercent # NullPct
            /\ PctLT(currentOpportunity.priceDifferencePercent, convergedPercent)
    THEN [close |-> TRUE, reason |-> "PRICE_CONVERGED"]
    ELSE [close |-> FALSE, reason |-> "BELOW_THRESHOLD"]

shouldCloseOpportunity(currentOpportunity, activeOpportunity, t) ==
    IF /\ currentOpportunity.priceDifferencePercent # NullPct
       /\ PctLT(currentOpportunity.priceDifferencePercent, closeThresholdPercent)
    THEN [close |-> TRUE, reason |-> "BELOW_THRESHOLD"]
    ELSE IF /\ currentOpportunity.priceDifferencePercent # NullPct
            /\ PctLT(currentOpportunity.priceDifferencePercent, convergedPercent)
    THEN [close |-> TRUE, reason |-> "PRICE_CONVERGED"]
    ELSE IF t - activeOpportunity.openTimestamp > maxDuration
    THEN [close |-> TRUE, reason |-> "TIMEOUT"]
    ELSE [close |-> FALSE, reason |-> "BELOW_THRESHOLD"]

\* x || 0
OrZero(x) == IF x = NullNum THEN 0 ELSE x
PctOrZero(x) == IF x = NullPct THEN <<0, 1>> ELSE x

createClosedOpportunity(activeOpportunity, closePriceA, closePriceB, closeReason, closeTimestamp) ==
    LET both == closePriceA # NullNum /\ closePriceB # NullNum
        closePriceDifference ==
            IF both THEN Abs(closePriceA - closePriceB) ELSE 0
    IN  [id |-> activeOpportunity.id, oid |-> activeOpportunity.oid,
         symbol |-> activeOpportunity.symbol,
         exchangeA |-> activeOpportunity.exchangeA,
         exchangeB |-> activeOpportunity.exchangeB,
         openPriceA |-> OrZero(activeOpportunity.priceA),
         openPriceB |-> OrZero(activeOpportunity.priceB),
         openPriceDifference |-> OrZero(activeOpportunity.priceDifference),
         openPriceDifferencePercent |->
             PctOrZero(activeOpportunity.priceDifferencePercent),
         openProfit |-> OrZero(activeOpportunity.profit),
         openTimestamp |-> activeOpportunity.openTimestamp,
         closePriceA |-> OrZero(closePriceA),
         closePriceB |-> OrZero(closePriceB),
         closePriceDifference |-> closePriceDifference,
         closePriceDifferencePercent |->
             IF both THEN Percent(200 * closePriceDifference, closePriceA + closePriceB)
             ELSE <<0, 1>>,
         closeProfit |-> closePriceDifference * tradeSize,
         closeTimestamp |-> closeTimestamp,
         peakPriceDifferencePercent |-> activeOpportunity.peakPriceDifferencePercent,
         peakProfit |-> activeOpportunity.peakProfit,
         peakTimestamp |-> activeOpportunity.peakTimestamp,
         duration |-> closeTimestamp - activeOpportunity.openTimestamp,
         action |-> IF activeOpportunity.action = "INVALID" THEN "BUY_A_SELL_B"
                    ELSE activeOpportunity.action,
         closeReason |-> closeReason,
         alertsSent |-> activeOpportunity.alertsSent]

\* the first loop of checkForClosedOpportunities over the map, entry k onwards:
\* the entries it leaves (updated) and the closed records it collects
RECURSIVE checkLoop(_, _, _, _)
checkLoop(k, active, store, t) ==
    IF k > Len(active) THEN [active |-> <<>>, closed |-> <<>>]
    ELSE LET a == active[k]
             cur == getCurrentOpportunityState(store, a.symbol, a.exchangeA,
                                               a.exchangeB, t)
             rest == checkLoop(k + 1, active, store, t)
         IN  IF cur = NoOpportunity
             THEN [active |-> <<a>> \o rest.active,
                   closed |-> <<createClosedOpportunity(a, NullNum, NullNum,
                                   "PRICE_CONVERGED", t)>> \o rest.closed]
             ELSE LET shouldClose == shouldCloseOpportunity(cur[1], a, t)
                  IN  IF shouldClose.close
                      THEN [active |-> <<a>> \o rest.active,
                            closed |-> <<createClosedOpportunity(a, cur[1].priceA,
                                cur[1].priceB, shouldClose.reason, t)>> \o rest.closed]
                      ELSE [active |-> <<updateActiveOpportunity(a, cur[1], t)>>
                                           \o rest.active,
                            closed |-> rest.closed]

\* closedOpportunityHistory.push, then shift when longer than maxHistorySize;
\* of a record the history of the model keeps the fields that identify it
pushClosedHistory(history, closedOpportunity) ==
    LET pushed == Append(history, [id |-> closedOpportunity.id,
                                   oid |-> closedOpportunity.oid])
    IN  IF Len(pushed) > maxHistorySize THEN Tail(pushed) ELSE pushed

\* a variant that compares the milliseconds with the minutes
TooShortMillis(closedOpportunity) ==
    closedOpportunity.duration < minOpportunityDurationForCloseAlert

\* durationMinutes < minOpportunityDurationForCloseAlert
TooShort(closedOpportunity) ==
    closedOpportunity.duration < minOpportunityDurationForCloseAlert * 60 * 1000

\* ------------------------------------------------------------------- state
Symbols == {tradingPairs[k] : k \in 1..Len(tradingPairs)}
AlertKeys == Symbols \X Exchanges3 \X Exchanges3
OpportunityIds == {k \in AlertKeys : Rank(k[2]) < Rank(k[3])}
\* the keys of the price store
StoreKeys == Symbols \X Exchanges3

\* a call of detectArbitrageOpportunities: where it stands, the closed records
\* its second loop has still to process and the one it took last, the
\* opportunities it has still to process and the one whose add it awaits; and
\* for the record the ids it found and the ids it has added a job for
NewScan ==
    [pc |-> "find", closed |-> <<>>, cur |-> <<>>, opps |-> <<>>, opp |-> <<>>,
     pnow |-> 0, target |-> 0, found |-> <<>>, sent |-> <<>>]

InitScan ==
    /\ now = 60 * 1000
    /\ ticks = 0
    /\ recentAlerts = [k \in AlertKeys |-> 0]
    /\ activeOpportunities = <<>>
    /\ sendClosedAlerts \in BOOLEAN
    /\ scans = <<>>
    /\ running = 0
    /\ arbitrageQueue = <<>>
    /\ lastJobAt = [k \in OpportunityIds |-> 0]
    /\ jobsSinceOpen = [k \in OpportunityIds |-> 0]
    /\ closedOpportunityHistory = <<>>
    /\ nextOid = 1

\* an adapter after construction
InitAdapter ==
    /\ isInitialized = FALSE
    /\ connections = [symbol \in Symbols |-> 0]
    /\ subscriptions = {}
    /\ sockets = <<>>
    /\ timers = [symbol \in Symbols |-> 0]
    /\ faults = 0
    /\ calls = 0

\* ExchangeService after construction: nothing is discovered, and
\* tradingPairs holds the pairs of the configuration
InitCatalog ==
    /\ discoveredSymbols = <<>>
    /\ exchangeTradingPairs = tradingPairs
    /\ catalogs = [exchange \in Exchanges3 |-> [ok |-> FALSE, symbols |-> <<>>]]
    /\ commonPairs = <<>>
    /\ subscribed = <<>>
    /\ discoveries = 0

\* the adapters that notify failures
NotifyVenues == {"lbank", "mexc"}
\* the types and messages of the failures, as lists of words: the one type
\* the adapters pass, and the messages of two errors
FailureTypes == {<<"Symbol Fetch Failed">>}
FailureMessages == {<<"fetch failed">>, <<"HTTP 500">>}

\* `${type}-${message}`
NotificationKey(type, message) == type \o <<"-">> \o message
NotificationKeys ==
    {NotificationKey(type, message) : type \in FailureTypes, message \in FailureMessages}

\* LbankService and MexcService after construction
InitNotify ==
    /\ failureNotifications = [venue \in NotifyVenues |-> [key \in NotificationKeys |-> 0]]
    /\ notifyLog = <<>>

\* the exchanges of the health check, in the order of their registration
ProbeOrder == <<"binance", "bybit", "mexc">>
ProbeVenues == {ProbeOrder[k] : k \in 1..Len(ProbeOrder)}
NoProbe ==
    [before |-> [venue \in ProbeVenues |-> [isInitialized |-> FALSE, connectionCount |-> 0]],
     throws |-> {}, working |-> <<>>, failed |-> <<>>, reconnects |-> <<>>]

\* the adapters after construction, and no health check made
InitProbe ==
    /\ adapters = [venue \in ProbeVenues |-> [isInitialized |-> FALSE, connectionCount |-> 0]]
    /\ probes = 0
    /\ probe = NoProbe

\* the state after construction
Init ==
    /\ InitScan
    /\ priceStore = <<>>
    /\ priceHistory = [k \in StoreKeys |-> <<>>]
    /\ putLog = <<>>
    /\ InitAdapter
    /\ InitCatalog
    /\ InitNotify
    /\ InitProbe

\* the jobs of arbitrageQueue.add
OpportunityJob(opportunity, oid, t) ==
    [name |-> "processOpportunity", data |-> opportunity, oid |-> oid,
     priority |-> PriorityOf(opportunity.priceDifferencePercent),
     attempts |-> attempts, addedAt |-> t]

ClosedJob(closedOpportunity, t) ==
    [name |-> "processClosedOpportunity", data |-> closedOpportunity,
     oid |-> closedOpportunity.oid,
     priority |-> PriorityOf(closedOpportunity.peakPriceDifferencePercent),
     attempts |-> attempts, addedAt |-> t]

RemoveAt(seq, i) == [k \in 1..(Len(seq) - 1) |-> IF k < i THEN seq[k] ELSE seq[k + 1]]

\* ----------------------------------------------------------------- actions
\* an exchange adapter delivers a ticker: ExchangeService.handlePriceUpdate,
\* as far as the scans can see it, which is the latest price of the key; the
\* history of the key, which updatePrice extends too and no scan reads, is
\* followed by HandlePriceUpdate
PutPrice(symbol, exchange, price) ==
    /\ running = 0
    /\ priceStore' = updatePrice(priceStore,
           [symbol |-> symbol, exchange |-> exchange, price |-> price,
            timestamp |-> now])
    /\ arbitrageQueue' = <<>>
    /\ UNCHANGED <<now, ticks, recentAlerts, activeOpportunities,
                   sendClosedAlerts, scans, running, lastJobAt, jobsSinceOpen,
                   closedOpportunityHistory, nextOid>>
    /\ UNCHANGED <<storeVars, adapterVars, catalogVars, notifyVars, probeVars>>

\* the clock advances between two scans
Tick(d) ==
    /\ running = 0
    /\ scans = <<>>
    /\ ticks < MaxTicks
    /\ now' = now + d
    /\ ticks' = ticks + 1
    /\ arbitrageQueue' = <<>>
    /\ UNCHANGED <<priceStore, recentAlerts, activeOpportunities,
                   sendClosedAlerts, scans, running, lastJobAt, jobsSinceOpen,
                   closedOpportunityHistory, nextOid>>
    /\ UNCHANGED <<storeVars, adapterVars, catalogVars, notifyVars, probeVars>>

\* the cron job fires detectArbitrageOpportunities, whether or not an earlier
\* call has returned; the call runs checkForClosedOpportunities up to its
\* second loop
CronTickRun ==
    /\ running = 0
    /\ running' = Len(scans) + 1
    /\ IF sendClosedAlerts
       THEN LET r == checkLoop(1, activeOpportunities, priceStore, now)
            IN  /\ activeOpportunities' = r.active
                /\ scans' = Append(scans, [NewScan EXCEPT
                       !.pc = IF r.closed = <<>> THEN "find" ELSE "closeLoop",
                       !.closed = r.closed])
       ELSE /\ scans' = Append(scans, NewScan)
            /\ UNCHANGED activeOpportunities
    /\ arbitrageQueue' = <<>>
    /\ UNCHANGED <<now, ticks, priceStore, recentAlerts, sendClosedAlerts,
                   lastJobAt, jobsSinceOpen,
                   closedOpportunityHistory, nextOid>>
    /\ UNCHANGED <<storeVars, adapterVars, catalogVars, notifyVars, probeVars>>

\* the same, for at most MaxScans calls at a time
CronTick ==
    /\ Len(scans) < MaxScans
    /\ CronTickRun

\* the same, for at most MaxScans3 calls at a time
CronTick3 ==
    /\ Len(scans) < MaxScans3
    /\ CronTickRun

\* where the second loop of checkForClosedOpportunities goes on
AfterClose(closed) == IF closed = <<>> THEN "find" ELSE "closeLoop"

\* processClosedOpportunity returns early for a short opportunity, and the
\* loop deletes its id
CloseShort(s) ==
    /\ s \in 1..Len(scans)
    /\ running = s
    /\ scans[s].pc = "closeLoop"
    /\ LET c == Head(scans[s].closed)
       IN  /\ TooShort(c)
           /\ activeOpportunities' = ActiveDelete(activeOpportunities, c.id)
           /\ scans' = [scans EXCEPT ![s].closed = Tail(@), ![s].cur = <<c>>,
                                     ![s].pc = AfterClose(Tail(scans[s].closed))]
    /\ arbitrageQueue' = <<>>
    /\ UNCHANGED <<now, ticks, priceStore, recentAlerts, sendClosedAlerts,
                   running, lastJobAt, jobsSinceOpen,
                   closedOpportunityHistory, nextOid>>
    /\ UNCHANGED <<storeVars, adapterVars, catalogVars, notifyVars, probeVars>>

\* processClosedOpportunity calls arbitrageQueue.add and awaits it
CloseAdd(s) ==
    /\ s \in 1..Len(scans)
    /\ running = s
    /\ scans[s].pc = "closeLoop"
    /\ LET c == Head(scans[s].closed)
       IN  /\ ~TooShort(c)
           /\ arbitrageQueue' = <<ClosedJob(c, now)>>
           /\ scans' = [scans EXCEPT ![s].closed = Tail(@), ![s].cur = <<c>>,
                                     ![s].pc = "awaitClose"]
    /\ running' = 0
    /\ UNCHANGED <<now, ticks, priceStore, recentAlerts, activeOpportunities,
                   sendClosedAlerts, lastJobAt, jobsSinceOpen,
                   closedOpportunityHistory, nextOid>>
    /\ UNCHANGED <<storeVars, adapterVars, catalogVars, notifyVars, probeVars>>

\* the add has resolved: processClosedOpportunity stores the record in the
\* history and returns, and the loop deletes the id and goes on
CloseAdded(s) ==
    /\ s \in 1..Len(scans)
    /\ running = 0
    /\ scans[s].pc = "awaitClose"
    /\ closedOpportunityHistory' =
           pushClosedHistory(closedOpportunityHistory, scans[s].cur[1])
    /\ activeOpportunities' = ActiveDelete(activeOpportunities, scans[s].cur[1].id)
    /\ scans' = [scans EXCEPT ![s].pc = AfterClose(scans[s].closed)]
    /\ running' = s
    /\ arbitrageQueue' = <<>>
    /\ UNCHANGED <<now, ticks, priceStore, recentAlerts, sendClosedAlerts,
                   lastJobAt, jobsSinceOpen, nextOid>>
    /\ UNCHANGED <<storeVars, adapterVars, catalogVars, notifyVars, probeVars>>

\* findArbitrageOpportunities; with nothing found detectArbitrageOpportunities
\* returns
FindOpens(s) ==
    /\ s \in 1..Len(scans)
    /\ running = s
    /\ scans[s].pc = "find"
    /\ LET found == findArbitrageOpportunities(priceStore, recentAlerts, now)
       IN  IF found = <<>>
           THEN /\ scans' = RemoveAt(scans, s)
                /\ running' = 0
           ELSE /\ scans' = [scans EXCEPT ![s].pc = "procLoop", ![s].cur = <<>>,
                                          ![s].opps = found,
                                          ![s].found = [x \in 1..Len(found) |->
                                              generateOpportunityId(found[x])]]
                /\ UNCHANGED running
    /\ arbitrageQueue' = <<>>
    /\ UNCHANGED <<now, ticks, priceStore, recentAlerts, activeOpportunities,
                   sendClosedAlerts, lastJobAt, jobsSinceOpen,
                   closedOpportunityHistory, nextOid>>
    /\ UNCHANGED <<storeVars, adapterVars, catalogVars, notifyVars, probeVars>>

\* processArbitrageOpportunity, the id is active: the object is updated, and
\* when the cooldown has elapsed arbitrageQueue.add is called and awaited
ProcUpdate(s) ==
    /\ s \in 1..Len(scans)
    /\ running = s
    /\ scans[s].pc = "procLoop"
    /\ LET o == Head(scans[s].opps)
           id == generateOpportunityId(o)
           i == ActiveIndex(activeOpportunities, id)
       IN  /\ i # 0
           /\ activeOpportunities' = [activeOpportunities EXCEPT ![i] =
                  updateActiveOpportunity(@, o, now)]
           /\ IF CooldownElapsed(recentAlerts, AlertKey(o), now)
              THEN /\ arbitrageQueue' =
                          <<OpportunityJob(o, activeOpportunities[i].oid, now)>>
                   /\ lastJobAt' = [lastJobAt EXCEPT ![id] = now]
                   /\ jobsSinceOpen' = [jobsSinceOpen EXCEPT ![id] = @ + 1]
                   /\ scans' = [scans EXCEPT ![s].opps = Tail(@),
                          ![s].opp = <<o>>, ![s].pnow = now,
                          ![s].target = activeOpportunities[i].oid,
                          ![s].sent = Append(@, id),
                          ![s].pc = "awaitUpdate"]
                   /\ running' = 0
              ELSE /\ arbitrageQueue' = <<>>
                   /\ IF Tail(scans[s].opps) = <<>>
                      THEN scans' = RemoveAt(scans, s) /\ running' = 0
                      ELSE scans' = [scans EXCEPT ![s].opps = Tail(@)]
                           /\ UNCHANGED running
                   /\ UNCHANGED <<lastJobAt, jobsSinceOpen>>
    /\ UNCHANGED <<now, ticks, priceStore, recentAlerts, sendClosedAlerts,
                   closedOpportunityHistory, nextOid>>
    /\ UNCHANGED <<storeVars, adapterVars, catalogVars, notifyVars, probeVars>>

\* processArbitrageOpportunity, the id is not active: the object is created
\* and set, arbitrageQueue.add is called and awaited
ProcNewOpen(s) ==
    /\ s \in 1..Len(scans)
    /\ running = s
    /\ scans[s].pc = "procLoop"
    /\ LET o == Head(scans[s].opps)
           id == generateOpportunityId(o)
       IN  /\ ActiveIndex(activeOpportunities, id) = 0
           /\ activeOpportunities' = Append(activeOpportunities,
                  newActiveOpportunity(o, now, nextOid))
           /\ arbitrageQueue' = <<OpportunityJob(o, nextOid, now)>>
           /\ lastJobAt' = [lastJobAt EXCEPT ![id] = now]
           /\ jobsSinceOpen' = [jobsSinceOpen EXCEPT ![id] = 1]
           /\ scans' = [scans EXCEPT ![s].opps = Tail(@), ![s].opp = <<o>>,
                  ![s].pnow = now, ![s].target = nextOid,
                  ![s].sent = Append(@, id), ![s].pc = "awaitNew"]
    /\ nextOid' = nextOid + 1
    /\ running' = 0
    /\ UNCHANGED <<now, ticks, priceStore, recentAlerts, sendClosedAlerts,
                   closedOpportunityHistory>>
    /\ UNCHANGED <<storeVars, adapterVars, catalogVars, notifyVars, probeVars>>

\* the same, for at most MaxOpens opportunities in a behaviour
ProcNew(s) ==
    /\ nextOid <= MaxOpens
    /\ ProcNewOpen(s)

\* the same, for at most MaxOpens3 opportunities in a behaviour
ProcNew3(s) ==
    /\ nextOid <= MaxOpens3
    /\ ProcNewOpen(s)

\* a variant that leaves alertsSent as it is
IncrementAlertsNever(active, oid) == active

\* alertsSent++ on the object the call holds, which the map may have dropped
IncrementAlerts(active, oid) ==
    [i \in 1..Len(active) |->
        IF active[i].oid = oid THEN [active[i] EXCEPT !.alertsSent = @ + 1]
        ELSE active[i]]

\* the add of processArbitrageOpportunity has resolved: the alert time is
\* recorded; after the last opportunity detectArbitrageOpportunities returns
ProcAdded(s) ==
    /\ s \in 1..Len(scans)
    /\ running = 0
    /\ scans[s].pc \in {"awaitUpdate", "awaitNew"}
    /\ recentAlerts' = [recentAlerts EXCEPT
           ![AlertKey(scans[s].opp[1])] = scans[s].pnow]
    /\ activeOpportunities' =
           IF scans[s].pc = "awaitUpdate"
           THEN IncrementAlerts(activeOpportunities, scans[s].target)
           ELSE activeOpportunities
    /\ IF scans[s].opps = <<>>
       THEN scans' = RemoveAt(scans, s) /\ running' = 0
       ELSE scans' = [scans EXCEPT ![s].pc = "procLoop", ![s].opp = <<>>,
                                   ![s].pnow = 0, ![s].target = 0]
            /\ running' = s
    /\ arbitrageQueue' = <<>>
    /\ UNCHANGED <<now, ticks, priceStore, sendClosedAlerts, lastJobAt, jobsSinceOpen,
                   closedOpportunityHistory, nextOid>>
    /\ UNCHANGED <<storeVars, adapterVars, catalogVars, notifyVars, probeVars>>

Next ==
    \/ \E symbol \in Symbols, exchange \in Exchanges : \E price \in Prices[exchange] :
           PutPrice(symbol, exchange, price)
    \/ \E d \in Deltas : Tick(d)
    \/ CronTick
    \/ \E s \in 1..MaxScans : CloseShort(s)
    \/ \E s \in 1..MaxScans : CloseAdd(s)
    \/ \E s \in 1..MaxScans : CloseAdded(s)
    \/ \E s \in 1..MaxScans : FindOpens(s)
    \/ \E s \in 1..MaxScans : ProcUpdate(s)
    \/ \E s \in 1..MaxScans : ProcNew(s)
    \/ \E s \in 1..MaxScans : ProcAdded(s)

Spec == Init /\ [][Next]_vars

\* the add of processArbitrageOpportunity has rejected: the catch of the method
\* logs the error, the alert time is not recorded and alertsSent is not
\* incremented; detectArbitrageOpportunities goes on with the next opportunity
ProcAddFailed(s) ==
    /\ s \in 1..Len(scans)
    /\ running = 0
    /\ scans[s].pc \in {"awaitUpdate", "awaitNew"}
    /\ IF scans[s].opps = <<>>
       THEN scans' = RemoveAt(scans, s) /\ running' = 0
       ELSE scans' = [scans EXCEPT ![s].pc = "procLoop", ![s].opp = <<>>,
                                   ![s].pnow = 0, ![s].target = 0]
            /\ running' = s
    /\ arbitrageQueue' = <<>>
    \* the job that was not added is not counted
    /\ jobsSinceOpen' = [jobsSinceOpen EXCEPT
           ![generateOpportunityId(scans[s].opp[1])] = @ - 1]
    /\ UNCHANGED <<now, ticks, priceStore, recentAlerts, activeOpportunities,
                   sendClosedAlerts, lastJobAt,
                   closedOpportunityHistory, nextOid>>
    /\ UNCHANGED <<storeVars, adapterVars, catalogVars, notifyVars, probeVars>>

\* the add of processClosedOpportunity has rejected: its catch logs the error
\* and the record is not stored; the loop of checkForClosedOpportunities
\* deletes the id and goes on
CloseAddFailed(s) ==
    /\ s \in 1..Len(scans)
    /\ running = 0
    /\ scans[s].pc = "awaitClose"
    /\ activeOpportunities' = ActiveDelete(activeOpportunities, scans[s].cur[1].id)
    /\ scans' = [scans EXCEPT ![s].pc = AfterClose(scans[s].closed)]
    /\ running' = s
    /\ arbitrageQueue' = <<>>
    /\ UNCHANGED <<now, ticks, priceStore, recentAlerts, sendClosedAlerts,
                   lastJobAt, jobsSinceOpen, closedOpportunityHistory, nextOid>>
    /\ UNCHANGED <<storeVars, adapterVars, catalogVars, notifyVars, probeVars>>

\* the program with a queue whose add may reject
NextFail ==
    \/ \E symbol \in Symbols, exchange \in Exchanges : \E price \in Prices[exchange] :
           PutPrice(symbol, exchange, price)
    \/ \E d \in Deltas : Tick(d)
    \/ CronTick
    \/ \E s \in 1..MaxScans : CloseShort(s)
    \/ \E s \in 1..MaxScans : CloseAdd(s)
    \/ \E s \in 1..MaxScans : CloseAdded(s)
    \/ \E s \in 1..MaxScans : FindOpens(s)
    \/ \E s \in 1..MaxScans : ProcUpdate(s)
    \/ \E s \in 1..MaxScans : ProcNew(s)
    \/ \E s \in 1..MaxScans : ProcAdded(s)
    \/ \E s \in 1..MaxScans : ProcAddFailed(s)
    \/ \E s \in 1..MaxScans : CloseAddFailed(s)

SpecFail == Init /\ [][NextFail]_vars

\* the same program fed with the prices PricesFlip
NextFlip ==
    \/ \E symbol \in Symbols, exchange \in Exchanges :
           \E price \in PricesFlip[exchange] : PutPrice(symbol, exchange, price)
    \/ \E d \in Deltas : Tick(d)
    \/ CronTick
    \/ \E s \in 1..MaxScans : CloseShort(s)
    \/ \E s \in 1..MaxScans : CloseAdd(s)
    \/ \E s \in 1..MaxScans : CloseAdded(s)
    \/ \E s \in 1..MaxScans : FindOpens(s)
    \/ \E s \in 1..MaxScans : ProcUpdate(s)
    \/ \E s \in 1..MaxScans : ProcNew(s)
    \/ \E s \in 1..MaxScans : ProcAdded(s)

SpecFlip == Init /\ [][NextFlip]_vars

\* the same program fed with the prices PricesClose
NextClose ==
    \/ \E symbol \in Symbols, exchange \in Exchanges :
           \E price \in PricesClose[exchange] : PutPrice(symbol, exchange, price)
    \/ \E d \in Deltas : Tick(d)
    \/ CronTick
    \/ \E s \in 1..MaxScans : CloseShort(s)
    \/ \E s \in 1..MaxScans : CloseAdd(s)
    \/ \E s \in 1..MaxScans : CloseAdded(s)
    \/ \E s \in 1..MaxScans : FindOpens(s)
    \/ \E s \in 1..MaxScans : ProcUpdate(s)
    \/ \E s \in 1..MaxScans : ProcNew(s)
    \/ \E s \in 1..MaxScans : ProcAdded(s)

SpecClose == Init /\ [][NextClose]_vars

\* the same program with the three venues of Prices3, while the clock stands
\* still: each venue keeps its price and no opportunity closes, so that the
\* second loop of checkForClosedOpportunities has nothing to do
Next3 ==
    \/ \E symbol \in Symbols, exchange \in Exchanges3 :
           \E price \in Prices3[exchange] : PutPrice(symbol, exchange, price)
    \/ CronTick3
    \/ \E s \in 1..MaxScans3 : FindOpens(s)
    \/ \E s \in 1..MaxScans3 : ProcUpdate(s)
    \/ \E s \in 1..MaxScans3 : ProcNew3(s)
    \/ \E s \in 1..MaxScans3 : ProcAdded(s)

Spec3 == Init /\ [][Next3]_vars

\* ------------------------------------------------------- exchange adapters
\* the number parseFloat returns for a text that does not start with a number
NaN == 0 - 1000000

\* the texts of a price field in a frame: none (the field is missing or
\* empty), "abc", "0", "-5", "1990", "2007"
FrameFields ==
    {<<>>, <<"a", "b", "c">>, <<"0">>, <<"-", "5">>,
     <<"1", "9", "9", "0">>, <<"2", "0", "0", "7">>}

\* a parsed frame: whether it is a ticker message of the adapter's channel,
\* its last-price field (c at Binance, lastPrice at ByBit and MEXC) and the
\* field MEXC falls back to
Frames == [ticker : BOOLEAN, last : FrameFields, price : {<<>>, <<"2", "0", "0", "7">>}]

Adapters == {"binance", "bybit", "mexc"}

DigitChars == <<"0", "1", "2", "3", "4", "5", "6", "7", "8", "9">>
IsDigit(c) == \E d \in 1..10 : DigitChars[d] = c
DigitVal(c) == (CHOOSE d \in 1..10 : DigitChars[d] = c) - 1

\* the value of the digits of str from position i on, after acc
RECURSIVE ParseDigits(_, _, _)
ParseDigits(str, i, acc) ==
    IF i > Len(str) \/ ~IsDigit(str[i]) THEN acc
    ELSE ParseDigits(str, i + 1, acc * 10 + DigitVal(str[i]))

\* parseFloat of a text of sign and digits: the number its longest numeric
\* prefix denotes, NaN when there is none
parseFloat(str) ==
    LET neg == Len(str) > 0 /\ str[1] = "-"
        start == IF neg THEN 2 ELSE 1
    IN  IF start > Len(str) \/ ~IsDigit(str[start]) THEN NaN
        ELSE IF neg THEN 0 - ParseDigits(str, start, 0)
        ELSE ParseDigits(str, start, 0)

\* a || b on texts: the empty text and the missing field are falsy
OrElse(a, b) == IF a # <<>> THEN a ELSE b

\* the price of the PriceData each adapter's parseTickerData builds
parseTickerData(exchange, data) ==
    IF exchange = "mexc"
    THEN parseFloat(OrElse(data.last, OrElse(data.price, <<"0">>)))
    ELSE parseFloat(data.last)

\* the test each adapter's message handler makes before it parses: Binance
\* makes none
Handles(exchange, frame) == exchange = "binance" \/ frame.ticker

\* a websocket frame arrives: on 'message' -> parseTickerData -> callback
\* (ExchangeService.handlePriceUpdate) -> PriceService.updatePrice
Frame(symbol, exchange, frame) ==
    /\ Handles(exchange, frame)
    /\ PutPrice(symbol, exchange, parseTickerData(exchange, frame))

\* the adapters and the price store alone
NextFrames ==
    \/ \E symbol \in Symbols, exchange \in Adapters :
           \E frame \in Frames : Frame(symbol, exchange, frame)
    \/ \E d \in Deltas : Tick(d)

SpecFrames == Init /\ [][NextFrames]_vars

\* ------------------------------------------------------- the price store
\* clock steps around the age at which a price goes stale
StoreDeltas ==
    {staleSeconds * 1000 - 1, staleSeconds * 1000, staleSeconds * 1000 + 1}

\* the prices of the store's ticks
StorePrices == {1990, 2007}

\* n ticks of one key that arrived a millisecond apart, from time 1 on
EarlierPuts(n) ==
    [i \in 1..n |-> [symbol |-> tradingPairs[1], exchange |-> "binance",
                     price |-> 2007, timestamp |-> i]]

\* the store after construction, or after the puts of EarlierPuts that fill
\* the history of their key up to one entry below its capacity
InitStore ==
    /\ InitScan
    /\ \E n \in {0, priceMaxHistorySize - 1} :
           /\ putLog = EarlierPuts(n)
           /\ priceHistory = [k \in StoreKeys |->
                  IF k = PriceKey(tradingPairs[1], "binance")
                  THEN EarlierPuts(n) ELSE <<>>]
           /\ priceStore = IF n = 0 THEN <<>> ELSE <<EarlierPuts(n)[n]>>
    /\ InitAdapter
    /\ InitCatalog
    /\ InitNotify
    /\ InitProbe

\* the calls of updatePrice made since the initial state
PutsMade == Cardinality({i \in 1..Len(putLog) : putLog[i].timestamp >= 60 * 1000})

\* ExchangeService.handlePriceUpdate -> PriceService.updatePrice, in full:
\* priceStore.set, then updatePriceHistory
HandlePriceUpdate(symbol, exchange, price) ==
    /\ PutsMade < MaxPuts
    /\ LET priceData == [symbol |-> symbol, exchange |-> exchange,
                         price |-> price, timestamp |-> now]
       IN  /\ priceStore' = updatePrice(priceStore, priceData)
           /\ priceHistory' = updatePriceHistory(priceHistory,
                  PriceKey(symbol, exchange), priceData)
           /\ putLog' = Append(putLog, priceData)
    /\ UNCHANGED <<now, ticks, recentAlerts, activeOpportunities,
                   sendClosedAlerts, scans, running, arbitrageQueue, lastJobAt,
                   jobsSinceOpen, closedOpportunityHistory, nextOid>>
    /\ UNCHANGED <<adapterVars, catalogVars, notifyVars, probeVars>>

NextStore ==
    \/ \E symbol \in Symbols, exchange \in Exchanges :
           \E price \in StorePrices : HandlePriceUpdate(symbol, exchange, price)
    \/ \E d \in StoreDeltas : Tick(d)

SpecStore == InitStore /\ [][NextStore]_vars

\* ------------------------------------------------------ an exchange adapter
\* BinanceService, with which BybitService, LbankService and MexcService
\* agree in what follows, under ExchangeService and the events of its sockets.
\* A socket is known by its position in sockets; besides its symbol and its
\* readyState it records whether disconnect has run since it was made
\* (stopped) and whether it has called the callback after that (late).

\* what the scans and the price store hold, which the adapter leaves alone
\* but for the price store itself
scanVars == <<now, ticks, recentAlerts, activeOpportunities, sendClosedAlerts,
              scans, running, arbitrageQueue, lastJobAt, jobsSinceOpen,
              closedOpportunityHistory, nextOid>>

\* subscribeToTicker: new WebSocket(url), with its four handlers
subscribeToTicker(socks, symbol) ==
    Append(socks, [symbol |-> symbol, readyState |-> "CONNECTING",
                   stopped |-> FALSE, late |-> FALSE])

\* for (const pair of this.tradingPairs) await service.subscribeToTicker(pair, ...)
RECURSIVE subscribeAll(_, _)
subscribeAll(socks, k) ==
    IF k > Len(tradingPairs) THEN socks
    ELSE subscribeAll(subscribeToTicker(socks, tradingPairs[k]), k + 1)

\* disconnect, on the sockets: ws.close() for the open sockets of connections
disconnect(socks, conns) ==
    [i \in 1..Len(socks) |->
        [socks[i] EXCEPT
            !.readyState = IF conns[socks[i].symbol] = i /\ @ = "OPEN"
                           THEN "CLOSING" ELSE @,
            !.stopped = TRUE]]

\* isConnected() && getConnectionCount() > 0
isConnected == isInitialized /\ \E symbol \in Symbols : connections[symbol] # 0

\* onModuleInit -> startWebSocketConnections: initialize, then the subscriptions
Start ==
    /\ sockets = <<>>
    /\ ~isInitialized
    /\ calls = 0
    /\ isInitialized' = TRUE
    /\ sockets' = subscribeAll(sockets, 1)
    /\ UNCHANGED <<connections, subscriptions, timers, faults, calls>>
    /\ UNCHANGED <<scanVars, priceStore, storeVars, catalogVars, notifyVars, probeVars>>

\* reconnectExchange: disconnect, initialize, then the subscriptions
ReconnectExchange ==
    /\ sockets # <<>>
    /\ calls < MaxCalls
    /\ calls' = calls + 1
    /\ sockets' = subscribeAll(disconnect(sockets, connections), 1)
    /\ connections' = [symbol \in Symbols |-> 0]
    /\ subscriptions' = {}
    /\ isInitialized' = TRUE
    /\ UNCHANGED <<timers, faults>>
    /\ UNCHANGED <<scanVars, priceStore, storeVars, catalogVars, notifyVars, probeVars>>

\* performHealthCheck: an exchange that is not connected is reconnected
HealthCheck ==
    /\ ~isConnected
    /\ ReconnectExchange

\* onModuleDestroy: disconnect
Destroy ==
    /\ sockets # <<>>
    /\ calls < MaxCalls
    /\ calls' = calls + 1
    /\ sockets' = disconnect(sockets, connections)
    /\ connections' = [symbol \in Symbols |-> 0]
    /\ subscriptions' = {}
    /\ isInitialized' = FALSE
    /\ UNCHANGED <<timers, faults>>
    /\ UNCHANGED <<scanVars, priceStore, storeVars, catalogVars, notifyVars, probeVars>>

\* ws.on('open')
SocketOpen(id) ==
    /\ id \in 1..Len(sockets)
    /\ sockets[id].readyState = "CONNECTING"
    /\ sockets' = [sockets EXCEPT ![id].readyState = "OPEN"]
    /\ connections' = [connections EXCEPT ![sockets[id].symbol] = id]
    /\ subscriptions' = subscriptions \cup {sockets[id].symbol}
    /\ UNCHANGED <<isInitialized, timers, faults, calls>>
    /\ UNCHANGED <<scanVars, priceStore, storeVars, catalogVars, notifyVars, probeVars>>

\* ws.on('message'): the callback is called with the parsed ticker
SocketMessage(id, price) ==
    /\ id \in 1..Len(sockets)
    /\ sockets[id].readyState = "OPEN"
    /\ priceStore' = updatePrice(priceStore,
           [symbol |-> sockets[id].symbol, exchange |-> "binance",
            price |-> price, timestamp |-> now])
    /\ sockets' = [sockets EXCEPT ![id].late = sockets[id].stopped]
    /\ UNCHANGED <<isInitialized, connections, subscriptions, timers, faults, calls>>
    /\ UNCHANGED <<scanVars, storeVars, catalogVars, notifyVars, probeVars>>

\* ws.on('error'): the handler logs; the socket library then closes the socket
SocketError(id) ==
    /\ id \in 1..Len(sockets)
    /\ sockets[id].readyState \in {"CONNECTING", "OPEN"}
    /\ faults < MaxFaults
    /\ faults' = faults + 1
    /\ sockets' = [sockets EXCEPT ![id].readyState = "CLOSING"]
    /\ UNCHANGED <<isInitialized, connections, subscriptions, timers, calls>>
    /\ UNCHANGED <<scanVars, priceStore, storeVars, catalogVars, notifyVars, probeVars>>

\* ws.on('close'), of a socket that was closing or that the network closes:
\* connections.delete(symbol), setTimeout(reconnectTicker)
SocketClose(id) ==
    /\ id \in 1..Len(sockets)
    /\ sockets[id].readyState # "CLOSED"
    /\ IF sockets[id].readyState = "CLOSING"
       THEN UNCHANGED faults
       ELSE faults < MaxFaults /\ faults' = faults + 1
    /\ sockets' = [sockets EXCEPT ![id].readyState = "CLOSED"]
    /\ connections' = [connections EXCEPT ![sockets[id].symbol] = 0]
    /\ timers' = [timers EXCEPT ![sockets[id].symbol] = @ + 1]
    /\ UNCHANGED <<isInitialized, subscriptions, calls>>
    /\ UNCHANGED <<scanVars, priceStore, storeVars, catalogVars, notifyVars, probeVars>>

\* a variant that returns without a new subscription
ReconnectTickerGivesUp(symbol) ==
    /\ timers[symbol] > 0
    /\ timers' = [timers EXCEPT ![symbol] = @ - 1]
    /\ UNCHANGED <<isInitialized, connections, subscriptions, sockets, faults, calls>>
    /\ UNCHANGED <<scanVars, priceStore, storeVars, catalogVars, notifyVars, probeVars>>

\* a timer fires: reconnectTicker
ReconnectTicker(symbol) ==
    /\ timers[symbol] > 0
    /\ timers' = [timers EXCEPT ![symbol] = @ - 1]
    /\ sockets' = IF ~isInitialized \/ connections[symbol] # 0 THEN sockets
                  ELSE subscribeToTicker(sockets, symbol)
    /\ UNCHANGED <<isInitialized, connections, subscriptions, faults, calls>>
    /\ UNCHANGED <<scanVars, priceStore, storeVars, catalogVars, notifyVars, probeVars>>

\* the sockets a behaviour can make: one per subscription of Start and of
\* ReconnectExchange, and one per 'close', which follows a fault or a
\* ws.close() of disconnect
SocketIds == 1..((2 * MaxCalls + 1) * Len(tradingPairs) + MaxFaults)

TimersFire == \E symbol \in Symbols : ReconnectTicker(symbol)

NextAdapter ==
    \/ Start
    \/ ReconnectExchange
    \/ HealthCheck
    \/ Destroy
    \/ \E id \in SocketIds : SocketOpen(id)
    \/ \E id \in SocketIds : SocketMessage(id, 2007)
    \/ \E id \in SocketIds : SocketError(id)
    \/ \E id \in SocketIds : SocketClose(id)
    \/ TimersFire

\* the socket library emits 'close' for a socket that is closing
ClosingCloses ==
    \E id \in SocketIds :
        /\ id \in 1..Len(sockets)
        /\ sockets[id].readyState = "CLOSING"
        /\ SocketClose(id)

\* timers fire, and sockets that are closing close
SpecAdapter ==
    Init /\ [][NextAdapter]_vars /\ WF_vars(TimersFire) /\ WF_vars(ClosingCloses)

\* ------------------------------------------------ discovery of common pairs
\* ExchangeService.discoverCommonUSDTPairs, findCommonUSDTPairs and
\* refreshCommonPairs over three of the registered exchanges. A Map is a
\* sequence of <<key, value>> in insertion order, a Set a sequence without
\* repetition in insertion order.

\* the answers of getSymbols: a failure, or a list of ExchangeSymbol
CatalogChoices ==
    { [ok |-> FALSE, symbols |-> <<>>],
      [ok |-> TRUE, symbols |-> << [symbol |-> "BTC/USDT", quoteAsset |-> "USDT"],
                                   [symbol |-> "ETH/USDT", quoteAsset |-> "USDT"] >>],
      [ok |-> TRUE, symbols |-> << [symbol |-> "ETH/USDT", quoteAsset |-> "USDT"],
                                   [symbol |-> "BTC/USDT", quoteAsset |-> "USDT"] >>],
      [ok |-> TRUE, symbols |-> << [symbol |-> "ETH/BTC", quoteAsset |-> "BTC"],
                                   [symbol |-> "ETH/USDT", quoteAsset |-> "USDT"],
                                   [symbol |-> "ETH/USDT", quoteAsset |-> "USDT"] >>],
      [ok |-> TRUE, symbols |-> << [symbol |-> "BTC/USDT", quoteAsset |-> "USDT"] >>] }
CatalogSymbols == {"BTC/USDT", "ETH/BTC", "ETH/USDT"}

\* the orders in which the answers of the exchanges can arrive
ArrivalOrders ==
    {order \in [1..Cardinality(Exchanges3) -> Exchanges3] :
        \A i, j \in DOMAIN order : order[i] = order[j] => i = j}

Elements(seq) == {seq[i] : i \in DOMAIN seq}

\* new Set(array)
RECURSIVE SetOf(_)
SetOf(array) ==
    IF array = <<>> THEN <<>>
    ELSE LET front == SetOf(SubSeq(array, 1, Len(array) - 1))
             last == array[Len(array)]
         IN  IF last \in Elements(front) THEN front ELSE Append(front, last)

\* symbols.filter(symbol => symbol.quoteAsset === 'USDT').map(symbol => symbol.symbol)
usdtSymbols(symbols) ==
    LET kept == SelectSeq(symbols, LAMBDA symbol : symbol.quoteAsset = "USDT")
    IN  [i \in 1..Len(kept) |-> kept[i].symbol]

\* Map.prototype.set
MapSet(map, key, value) ==
    IF \E i \in DOMAIN map : map[i][1] = key
    THEN [i \in DOMAIN map |-> IF map[i][1] = key THEN <<key, value>> ELSE map[i]]
    ELSE Append(map, <<key, value>>)

\* the loop of discoverCommonUSDTPairs: discoveredSymbols.set per exchange, as
\* the answers arrive; a failure sets the empty Set
RECURSIVE setDiscovered(_, _, _, _)
setDiscovered(map, order, cats, k) ==
    IF k > Len(order) THEN map
    ELSE LET exchangeName == order[k]
             value == IF cats[exchangeName].ok
                      THEN SetOf(usdtSymbols(cats[exchangeName].symbols))
                      ELSE <<>>
         IN  setDiscovered(MapSet(map, exchangeName, value), order, cats, k + 1)

\* pairCounts.get(symbol)
pairCount(map, symbol) ==
    Cardinality({i \in DOMAIN map : symbol \in Elements(map[i][2])})

\* the keys of pairCounts, in insertion order
RECURSIVE pairKeys(_, _)
pairKeys(map, k) ==
    IF k > Len(map) THEN <<>>
    ELSE SetOf(map[k][2] \o pairKeys(map, k + 1))

\* commonPairs.sort((a, b) => countB - countA): a stable sort, so the pairs of
\* one count keep their order
RECURSIVE sortByCount(_, _, _)
sortByCount(map, pairs, count) ==
    IF count = 0 THEN <<>>
    ELSE SelectSeq(pairs, LAMBDA symbol : pairCount(map, symbol) = count)
             \o sortByCount(map, pairs, count - 1)

\* a variant that asks for more than minExchangeCount exchanges
findCommonUSDTPairsAbove(map) ==
    sortByCount(map,
        SelectSeq(pairKeys(map, 1),
                  LAMBDA symbol : pairCount(map, symbol) > minExchangeCount),
        Len(map))

\* findCommonUSDTPairs
findCommonUSDTPairs(map) ==
    sortByCount(map,
        SelectSeq(pairKeys(map, 1),
                  LAMBDA symbol : pairCount(map, symbol) >= minExchangeCount),
        Len(map))

\* the names of discoveredSymbols, in insertion order
MapKeys(map) == [i \in DOMAIN map |-> map[i][1]]

\* discoverCommonUSDTPairs, the answers arriving in the given order
discoverCommonUSDTPairs(order, cats) ==
    LET map == setDiscovered(discoveredSymbols, order, cats, 1)
        found3 == findCommonUSDTPairs(map)
    IN  /\ discoveredSymbols' = map
        /\ catalogs' = cats
        /\ commonPairs' = found3
        /\ exchangeTradingPairs' = IF found3 = <<>> THEN exchangeTradingPairs ELSE found3
        /\ discoveries' = discoveries + 1

\* onModuleInit: discoverCommonUSDTPairs, then startWebSocketConnections, which
\* subscribes every adapter to this.tradingPairs
OnModuleInit(order, cats) ==
    /\ discoveries = 0
    /\ discoverCommonUSDTPairs(order, cats)
    /\ subscribed' = exchangeTradingPairs'
    /\ UNCHANGED <<scanVars, priceStore, storeVars, adapterVars, notifyVars, probeVars>>

\* refreshCommonPairs: discoverCommonUSDTPairs, then resubscribeToTradingPairs
\* when the number of pairs has changed. Every exchange has its entry in
\* discoveredSymbols by now, so the order of the answers makes no difference.
RefreshCommonPairs(cats) ==
    /\ discoveries > 0
    /\ discoveries <= MaxRefresh
    /\ discoverCommonUSDTPairs(MapKeys(discoveredSymbols), cats)
    /\ subscribed' = IF Len(exchangeTradingPairs) # Len(exchangeTradingPairs')
                     THEN exchangeTradingPairs' ELSE subscribed
    /\ UNCHANGED <<scanVars, priceStore, storeVars, adapterVars, notifyVars, probeVars>>

NextCatalog ==
    \/ \E order \in ArrivalOrders : \E cats \in [Exchanges3 -> CatalogChoices] :
           OnModuleInit(order, cats)
    \/ \E cats \in [Exchanges3 -> CatalogChoices] : RefreshCommonPairs(cats)

SpecCatalog == Init /\ [][NextCatalog]_vars

\* ------------------------------------------- the discovery and the scans
\* ExchangeService and ArbitrageService side by side: the start discovers the
\* common pairs and subscribes them, the adapters deliver tickers of the
\* subscribed pairs, and the scans run, while the clock stands still.

\* catalogs that list BTC/USDT, with or without ETH/USDT
ActiveCatalogChoices ==
    {c \in CatalogChoices :
        c.ok /\ Len(c.symbols) <= 2 /\ c.symbols[1].symbol = "BTC/USDT"}

\* a ticker of a subscribed pair arrives
SubscribedPrice(symbol, exchange, price) ==
    /\ symbol \in Elements(subscribed)
    /\ PutPrice(symbol, exchange, price)

\* the start, while no scan holds the thread
StartDiscovery(order, cats) ==
    /\ running = 0
    /\ OnModuleInit(order, cats)

NextActive ==
    \/ \E order \in ArrivalOrders : \E cats \in [Exchanges3 -> ActiveCatalogChoices] :
           StartDiscovery(order, cats)
    \/ \E symbol \in CatalogSymbols, exchange \in Exchanges :
           \E price \in Prices3[exchange] : SubscribedPrice(symbol, exchange, price)
    \/ CronTick3
    \/ \E s \in 1..MaxScans3 : FindOpens(s)
    \/ \E s \in 1..MaxScans3 : ProcUpdate(s)
    \/ \E s \in 1..MaxScans3 : ProcNew3(s)
    \/ \E s \in 1..MaxScans3 : ProcAdded(s)

SpecActive == Init /\ [][NextActive]_vars

\* ------------------------------------------------- failure notifications
\* LbankService.notifyFailure and MexcService.notifyFailure, with
\* NOTIFY_EXCHANGE_FAILURES at its default 'true'. A time of 0 stands for a key
\* that the Map does not hold: the code tests the value for truthiness.
failureCooldownMs == failureCooldownMinutes * 60 * 1000

\* clock steps around the cooldown
NotifyDeltas == {failureCooldownMs - 1, failureCooldownMs}

\* a variant that still suppresses when exactly failureCooldownMs have passed
notifyFailureInclusive(notifications, type, message, t) ==
    LET notificationKey == NotificationKey(type, message)
        lastNotification == notifications[notificationKey]
    IN  IF lastNotification # 0 /\ t - lastNotification <= failureCooldownMs
        THEN [notifications |-> notifications, sent |-> FALSE]
        ELSE [notifications |-> [notifications EXCEPT ![notificationKey] = t],
              sent |-> TRUE]

\* notifyFailure: the Map it leaves, and whether sendSystemAlert was called
notifyFailure(notifications, type, message, t) ==
    LET notificationKey == NotificationKey(type, message)
        lastNotification == notifications[notificationKey]
    IN  IF lastNotification # 0 /\ t - lastNotification < failureCooldownMs
        THEN [notifications |-> notifications, sent |-> FALSE]
        ELSE [notifications |-> [notifications EXCEPT ![notificationKey] = t],
              sent |-> TRUE]

\* getSymbols of an adapter has failed and calls notifyFailure
NotifyFailure(venue, type, message) ==
    /\ Len(notifyLog) < MaxNotify
    /\ LET r == notifyFailure(failureNotifications[venue], type, message, now)
       IN  /\ failureNotifications' = [failureNotifications EXCEPT ![venue] = r.notifications]
           /\ notifyLog' = Append(notifyLog,
                  [venue |-> venue, type |-> type, message |-> message,
                   timestamp |-> now, sent |-> r.sent])
    /\ UNCHANGED <<scanVars, priceStore, storeVars, adapterVars, catalogVars, probeVars>>

NextNotify ==
    \/ \E venue \in NotifyVenues, type \in FailureTypes, message \in FailureMessages :
           NotifyFailure(venue, type, message)
    \/ \E d \in NotifyDeltas : Tick(d)

SpecNotify == Init /\ [][NextNotify]_vars

\* ------------------------------------------------------- the health check
\* ExchangeService.performHealthCheck over three adapters, of which it reads
\* isConnected() and getConnectionCount(). The awaits of reconnectExchange are
\* on async functions that do no input or output, so that a call of
\* performHealthCheck runs without another task in between.

\* what reconnectExchange leaves of an adapter, whether or not its
\* subscriptions threw: disconnect has cleared connections, initialize has run
reconnected == [isInitialized |-> TRUE, connectionCount |-> 0]

\* a variant whose loop ends at the first reconnectExchange that throws
RECURSIVE performHealthCheckAbort(_, _, _)
performHealthCheckAbort(k, ads, throws) ==
    IF k > Len(ProbeOrder)
    THEN [adapters |-> ads, working |-> <<>>, failed |-> <<>>, reconnects |-> <<>>]
    ELSE LET exchangeName == ProbeOrder[k]
             rest == performHealthCheckAbort(k + 1, ads, throws)
         IN  IF ads[exchangeName].isInitialized /\ ads[exchangeName].connectionCount > 0
             THEN [rest EXCEPT !.working = <<exchangeName>> \o @]
             ELSE IF exchangeName \in throws
             THEN [adapters |-> [ads EXCEPT ![exchangeName] = reconnected],
                   working |-> <<>>, failed |-> <<exchangeName>>,
                   reconnects |-> <<exchangeName>>]
             ELSE [rest EXCEPT !.adapters[exchangeName] = reconnected,
                               !.failed = <<exchangeName>> \o @,
                               !.reconnects = <<exchangeName>> \o @]

\* the loop of performHealthCheck from the k-th exchange on: the adapters it
\* leaves, the lists workingExchanges and failedExchanges, and the exchanges it
\* called reconnectExchange for; the calls for the exchanges of throws throw
RECURSIVE performHealthCheck(_, _, _)
performHealthCheck(k, ads, throws) ==
    IF k > Len(ProbeOrder)
    THEN [adapters |-> ads, working |-> <<>>, failed |-> <<>>, reconnects |-> <<>>]
    ELSE LET exchangeName == ProbeOrder[k]
             rest == performHealthCheck(k + 1, ads, throws)
         IN  IF ads[exchangeName].isInitialized /\ ads[exchangeName].connectionCount > 0
             THEN [rest EXCEPT !.working = <<exchangeName>> \o @]
             ELSE [rest EXCEPT !.adapters[exchangeName] = reconnected,
                               !.failed = <<exchangeName>> \o @,
                               !.reconnects = <<exchangeName>> \o @]

\* startWebSocketConnections: service.initialize() for every exchange
InitializeAll ==
    /\ probes = 0
    /\ \A venue \in ProbeVenues : ~adapters[venue].isInitialized
    /\ adapters' = [venue \in ProbeVenues |-> [adapters[venue] EXCEPT !.isInitialized = TRUE]]
    /\ UNCHANGED <<probes, probe>>
    /\ UNCHANGED <<scanVars, priceStore, storeVars, adapterVars, catalogVars, notifyVars>>

\* onModuleDestroy: service.disconnect() for every exchange
DisconnectAll ==
    /\ \E venue \in ProbeVenues : adapters[venue].isInitialized
    /\ adapters' = [venue \in ProbeVenues |-> [isInitialized |-> FALSE, connectionCount |-> 0]]
    /\ UNCHANGED <<probes, probe>>
    /\ UNCHANGED <<scanVars, priceStore, storeVars, adapterVars, catalogVars, notifyVars>>

\* ws.on('open') of a socket of the adapter: connections.set
StreamOpens(venue) ==
    /\ adapters[venue].connectionCount < Len(tradingPairs)
    /\ adapters' = [adapters EXCEPT ![venue].connectionCount = @ + 1]
    /\ UNCHANGED <<probes, probe>>
    /\ UNCHANGED <<scanVars, priceStore, storeVars, adapterVars, catalogVars, notifyVars>>

\* ws.on('close') of a socket of the adapter: connections.delete
StreamCloses(venue) ==
    /\ adapters[venue].connectionCount > 0
    /\ adapters' = [adapters EXCEPT ![venue].connectionCount = @ - 1]
    /\ UNCHANGED <<probes, probe>>
    /\ UNCHANGED <<scanVars, priceStore, storeVars, adapterVars, catalogVars, notifyVars>>

\* the timer of startHealthChecks fires: performHealthCheck
HealthProbe(throws) ==
    /\ probes < MaxProbes
    /\ probes' = probes + 1
    /\ LET r == performHealthCheck(1, adapters, throws)
       IN  /\ adapters' = r.adapters
           /\ probe' = [before |-> adapters, throws |-> throws,
                        working |-> r.working, failed |-> r.failed,
                        reconnects |-> r.reconnects]
    /\ UNCHANGED <<scanVars, priceStore, storeVars, adapterVars, catalogVars, notifyVars>>

NextProbe ==
    \/ InitializeAll
    \/ DisconnectAll
    \/ \E venue \in ProbeVenues : StreamOpens(venue)
    \/ \E venue \in ProbeVenues : StreamCloses(venue)
    \/ \E throws \in SUBSET ProbeVenues : HealthProbe(throws)

SpecProbe == Init /\ [][NextProbe]_vars

\* ------------------------------------------------------------------ claims
\* the jobs of one name that a step has just added
Added(name) == {k \in 1..Len(arbitrageQueue') : arbitrageQueue'[k].name = name}

\* C1: any two processOpportunity jobs added for one opportunity id are at
\* least the cooldown apart: a job is added for an id only when no job was
\* added for it before or the last one was added cooldownMs or more ago.
C1_AlertsCooldownApart ==
    [][\A k \in Added("processOpportunity") :
          LET id == generateOpportunityId(arbitrageQueue'[k].data)
          IN  lastJobAt[id] = 0 \/ now' - lastJobAt[id] >= cooldownMs]_vars

\* C2: scans never overlap: at most one call of detectArbitrageOpportunities
\* is in progress at any time.
C2_ScansNeverOverlap == Len(scans) <= 1

ActiveOids(active) == {active[i].oid : i \in 1..Len(active)}
ActiveIds(active) == {active[i].id : i \in 1..Len(active)}

\* a close condition holds for an active opportunity at time t: a price of one
\* of its venues is missing or stale, its spread is below the close threshold
\* or below 0.1%, or it is older than the maximum age
CloseConditionHolds(a, store, t) ==
    LET ia == KeyIndex(store, PriceKey(a.symbol, a.exchangeA))
        ib == KeyIndex(store, PriceKey(a.symbol, a.exchangeB))
    IN  \/ ia = 0 \/ ib = 0
        \/ t - store[ia].timestamp > staleSeconds * 1000
        \/ t - store[ib].timestamp > staleSeconds * 1000
        \/ LET spread == <<200 * Abs(store[ia].price - store[ib].price),
                           store[ia].price + store[ib].price>>
           IN  PctLT(spread, closeThresholdPercent) \/ PctLT(spread, convergedPercent)
        \/ t - a.openTimestamp > maxDuration

\* C3: no processClosedOpportunity job is added for an opportunity whose
\* duration, closeTimestamp - openTimestamp, is less than
\* minOpportunityDurationForCloseAlert minutes.
C3_NoCloseJobForShort ==
    \A k \in 1..Len(arbitrageQueue) :
        arbitrageQueue[k].name = "processClosedOpportunity" =>
            /\ arbitrageQueue[k].data.duration =
                   arbitrageQueue[k].data.closeTimestamp
                       - arbitrageQueue[k].data.openTimestamp
            /\ arbitrageQueue[k].data.duration >=
                   minOpportunityDurationForCloseAlert * 60 * 1000

\* a scan has just closed an opportunity that lasted less than the minimum:
\* its id has left the map and no job was added
C3_Witness ==
    \E s \in 1..Len(scans) :
        /\ running = s
        /\ scans[s].pc \in {"closeLoop", "find"}
        /\ scans[s].cur # <<>>
        /\ scans[s].cur[1].duration < minOpportunityDurationForCloseAlert * 60 * 1000
        /\ scans[s].cur[1].id \notin ActiveIds(activeOpportunities)
        /\ arbitrageQueue = <<>>

\* C4: with closed alerts disabled, the checkForClosedOpportunities of a scan
\* still removes every active opportunity for which a close condition holds
\* (no job is added, so by the time the scan reaches findArbitrageOpportunities
\* they have left the map).
C4_ClosesWhenAlertsDisabled ==
    [][(~sendClosedAlerts /\ Len(scans') > Len(scans)) =>
          \A i \in 1..Len(activeOpportunities) :
              CloseConditionHolds(activeOpportunities[i], priceStore, now) =>
                  activeOpportunities[i].oid \notin ActiveOids(activeOpportunities')]_vars

\* C5: when the checkForClosedOpportunities of a scan has run (the scan is
\* about to call findArbitrageOpportunities), no active opportunity is older
\* than maxDuration.
C5_MaxAgeIsHardCap ==
    \A s \in 1..Len(scans) :
        (running = s /\ scans[s].pc = "find") =>
            \A i \in 1..Len(activeOpportunities) :
                now - activeOpportunities[i].openTimestamp <= maxDuration

\* C6: an active opportunity leaves the map only in the second loop of a
\* checkForClosedOpportunities that collected a closed record for it, and a
\* closed record is collected only for an opportunity for which a close
\* condition holds.
C6_RemovedOnlyOnCloseCondition ==
    [][/\ \A i \in 1..Len(activeOpportunities) :
              activeOpportunities[i].oid \notin ActiveOids(activeOpportunities') =>
                  \E s \in 1..Len(scans) :
                      \/ /\ running = s /\ scans[s].pc = "closeLoop"
                         /\ Head(scans[s].closed).oid = activeOpportunities[i].oid
                      \/ /\ scans[s].pc = "awaitClose"
                         /\ scans[s].cur[1].oid = activeOpportunities[i].oid
       /\ Len(scans') > Len(scans) =>
              \A k \in 1..Len(scans'[Len(scans')].closed) :
                  \E i \in 1..Len(activeOpportunities) :
                      /\ activeOpportunities[i].oid = scans'[Len(scans')].closed[k].oid
                      /\ CloseConditionHolds(activeOpportunities[i], priceStore, now)
      ]_vars

\* C7: the peak spread of an active opportunity is at least its current
\* spread, and it never decreases while the opportunity is in the map.
C7_PeakAtLeastCurrent ==
    [][/\ \A i \in 1..Len(activeOpportunities') :
              PctGE(activeOpportunities'[i].peakPriceDifferencePercent,
                    activeOpportunities'[i].priceDifferencePercent)
       /\ \A i \in 1..Len(activeOpportunities), j \in 1..Len(activeOpportunities') :
              activeOpportunities[i].oid = activeOpportunities'[j].oid =>
                  PctGE(activeOpportunities'[j].peakPriceDifferencePercent,
                        activeOpportunities[i].peakPriceDifferencePercent)]_vars

\* an opportunity that stays open with a spread below its peak
C7_Witness ==
    \E i \in 1..Len(activeOpportunities) :
        /\ PctGT(activeOpportunities[i].peakPriceDifferencePercent,
                 activeOpportunities[i].priceDifferencePercent)
        /\ activeOpportunities[i].lastUpdatedTimestamp
               > activeOpportunities[i].openTimestamp

\* C8: for every active opportunity openTimestamp <= lastUpdatedTimestamp <=
\* now, and openTimestamp never changes while the opportunity is in the map.
C8_OpenBeforeLastSeen ==
    [][/\ \A i \in 1..Len(activeOpportunities') :
              /\ activeOpportunities'[i].openTimestamp
                     <= activeOpportunities'[i].lastUpdatedTimestamp
              /\ activeOpportunities'[i].lastUpdatedTimestamp <= now'
       /\ \A i \in 1..Len(activeOpportunities), j \in 1..Len(activeOpportunities') :
              activeOpportunities[i].oid = activeOpportunities'[j].oid =>
                  activeOpportunities'[j].openTimestamp
                      = activeOpportunities[i].openTimestamp]_vars

\* an opportunity that has been updated at a later time than it was opened
C8_Witness ==
    \E i \in 1..Len(activeOpportunities) :
        /\ activeOpportunities[i].openTimestamp
               < activeOpportunities[i].lastUpdatedTimestamp
        /\ activeOpportunities[i].lastUpdatedTimestamp = now

\* C9: the id is the same for both orders of the two venues, and the map
\* never holds two entries for one instrument and one unordered venue pair.
C9_IdSymmetric ==
    /\ \A i \in Symbols, a \in Exchanges, b \in Exchanges :
           generateOpportunityId([symbol |-> i, exchangeA |-> a, exchangeB |-> b])
               = generateOpportunityId([symbol |-> i, exchangeA |-> b, exchangeB |-> a])
    /\ \A i \in 1..Len(activeOpportunities), j \in 1..Len(activeOpportunities) :
           ( /\ activeOpportunities[i].symbol = activeOpportunities[j].symbol
             /\ {activeOpportunities[i].exchangeA, activeOpportunities[i].exchangeB}
                    = {activeOpportunities[j].exchangeA, activeOpportunities[j].exchangeB} )
           => i = j

\* an active opportunity whose venues the price store lists in the order
\* opposite to the sorted one
C9_Witness ==
    \E i \in 1..Len(activeOpportunities) :
        /\ Rank(activeOpportunities[i].exchangeA) > Rank(activeOpportunities[i].exchangeB)
        /\ activeOpportunities[i].id =
               <<activeOpportunities[i].symbol, activeOpportunities[i].exchangeB,
                 activeOpportunities[i].exchangeA>>

\* the pairs of fresh prices of the store, in its order, whose spread is
\* exactly thresholdPercent, whose profit reaches minProfitUsd and for which
\* no cooldown is in force
ExactThresholdPairs ==
    {p \in (1..Len(priceStore)) \X (1..Len(priceStore)) :
        /\ p[1] < p[2]
        /\ priceStore[p[1]].symbol = priceStore[p[2]].symbol
        /\ now - priceStore[p[1]].timestamp <= staleSeconds * 1000
        /\ now - priceStore[p[2]].timestamp <= staleSeconds * 1000
        /\ 200 * Abs(priceStore[p[1]].price - priceStore[p[2]].price) * thresholdPercent[2]
               = thresholdPercent[1] * (priceStore[p[1]].price + priceStore[p[2]].price)
        /\ Abs(priceStore[p[1]].price - priceStore[p[2]].price) * tradeSize >= minProfitUsd
        /\ LET key == <<priceStore[p[1]].symbol, priceStore[p[1]].exchange,
                        priceStore[p[2]].exchange>>
           IN  recentAlerts[key] = 0 \/ now - recentAlerts[key] >= cooldownMs}

\* C10: a pair whose spread equals thresholdPercent exactly (profit reached,
\* prices fresh, no cooldown in force) is found by findArbitrageOpportunities,
\* and processing it leaves its id in the active map.
C10_ExactThresholdOpens ==
    [][\A s \in 1..Len(scans) :
          /\ (running = s /\ scans[s].pc = "find" /\ scans' # scans) =>
                 \A p \in ExactThresholdPairs :
                     /\ Len(scans') = Len(scans)
                     /\ \E k \in 1..Len(scans'[s].opps) :
                            /\ scans'[s].opps[k].exchangeA = priceStore[p[1]].exchange
                            /\ scans'[s].opps[k].exchangeB = priceStore[p[2]].exchange
                            /\ scans'[s].opps[k].symbol = priceStore[p[1]].symbol
          /\ (running = s /\ scans[s].pc = "procLoop" /\ scans' # scans
                 /\ PctEQ(Head(scans[s].opps).priceDifferencePercent, thresholdPercent)) =>
                 generateOpportunityId(Head(scans[s].opps))
                     \in ActiveIds(activeOpportunities')]_vars

\* an opportunity that has just been opened at exactly the threshold
C10_Witness ==
    \E i \in 1..Len(activeOpportunities) :
        /\ PctEQ(activeOpportunities[i].priceDifferencePercent, thresholdPercent)
        /\ PctEQ(activeOpportunities[i].peakPriceDifferencePercent, thresholdPercent)
        /\ activeOpportunities[i].alertsSent = 1
        /\ activeOpportunities[i].openTimestamp = now
        /\ activeOpportunities[i].lastUpdatedTimestamp = now
        /\ \E k \in 1..Len(arbitrageQueue) :
               /\ arbitrageQueue[k].name = "processOpportunity"
               /\ arbitrageQueue[k].oid = activeOpportunities[i].oid

\* the closed records the scans in progress hold: those their second loop has
\* still to process and the one each has processed last
InFlightClosed ==
    UNION {{scans[s].closed[k] : k \in 1..Len(scans[s].closed)}
               \cup {scans[s].cur[k] : k \in 1..Len(scans[s].cur)} : s \in 1..Len(scans)}

\* the record was made from two prices (a null price is recorded as 0)
BothPrices(c) == c.closePriceA # 0 /\ c.closePriceB # 0

\* scan s has just run the first loop of checkForClosedOpportunities, or has
\* skipped it, and nothing else
JustChecked(s) ==
    /\ running = s
    /\ scans[s].pc \in {"closeLoop", "find"}
    /\ scans[s].cur = <<>>

\* the price store holds a price of both venues of a, neither of them stale at t
VenuesFresh(a, store, t) ==
    /\ ~isPriceStale(store, a.symbol, a.exchangeA, t)
    /\ ~isPriceStale(store, a.symbol, a.exchangeB, t)

\* the spread of the two prices the store holds for the venues of a
StoreSpread(a, store) ==
    LET pa == store[KeyIndex(store, PriceKey(a.symbol, a.exchangeA))].price
        pb == store[KeyIndex(store, PriceKey(a.symbol, a.exchangeB))].price
    IN  Percent(200 * Abs(pa - pb), pa + pb)

\* C13: the close conditions are tested in the order close threshold, 0.1%,
\* maximum age, and the first that holds gives the reason: a record made from
\* two prices has reason BELOW_THRESHOLD whenever its spread is below
\* closeThresholdPercent (below 0.1% or not), PRICE_CONVERGED when it is not
\* but is below 0.1%, and TIMEOUT only when neither holds and the age exceeds
\* maxDuration.
C13_CloseReasonOrder ==
    \A c \in InFlightClosed :
        BothPrices(c) =>
            LET below == PctLT(c.closePriceDifferencePercent, closeThresholdPercent)
                converged == PctLT(c.closePriceDifferencePercent, convergedPercent)
            IN  /\ below => c.closeReason = "BELOW_THRESHOLD"
                /\ (~below /\ converged) => c.closeReason = "PRICE_CONVERGED"
                /\ c.closeReason = "TIMEOUT" <=> (~below /\ ~converged)
                /\ (~below /\ ~converged) => c.duration > maxDuration

\* a record of an opportunity older than the maximum whose spread is below both
\* the close threshold and 0.1%: all three conditions hold, the first one wins
C13_Witness ==
    \E c \in InFlightClosed :
        /\ BothPrices(c)
        /\ c.duration > maxDuration
        /\ PctLT(c.closePriceDifferencePercent, closeThresholdPercent)
        /\ PctLT(c.closePriceDifferencePercent, convergedPercent)
        /\ c.closeReason = "BELOW_THRESHOLD"

\* C14: when a scan has run its checkForClosedOpportunities, every active
\* opportunity one of whose venues has no price or a stale price in the store
\* has a closed record with reason PRICE_CONVERGED in that scan.
C14_StaleClosesConverged ==
    \A s \in 1..Len(scans) :
        JustChecked(s) =>
            \A i \in 1..Len(activeOpportunities) :
                ~VenuesFresh(activeOpportunities[i], priceStore, now) =>
                    \E k \in 1..Len(scans[s].closed) :
                        /\ scans[s].closed[k].oid = activeOpportunities[i].oid
                        /\ scans[s].closed[k].closeReason = "PRICE_CONVERGED"

\* C15: a processOpportunity job is added, and an opportunity is created, only
\* for a pair both of whose venues have a fresh price in the store at the time
\* of the scan.
C15_NoOpenOnStale ==
    /\ \A k \in 1..Len(arbitrageQueue) :
           arbitrageQueue[k].name = "processOpportunity" =>
               VenuesFresh(arbitrageQueue[k].data, priceStore, now)
    /\ \A i \in 1..Len(activeOpportunities) :
           activeOpportunities[i].openTimestamp = now =>
               VenuesFresh(activeOpportunities[i], priceStore, now)

\* an opportunity was closed and recorded, the scans have returned, and the
\* pair, whose prices qualify and whose cooldown has elapsed, has not been
\* opened again because its prices are stale
C15_Witness ==
    /\ scans = <<>>
    /\ activeOpportunities = <<>>
    /\ closedOpportunityHistory # <<>>
    /\ Len(priceStore) = 2
    /\ now - priceStore[1].timestamp > staleSeconds * 1000
    /\ PctGE(Percent(200 * Abs(priceStore[1].price - priceStore[2].price),
                     priceStore[1].price + priceStore[2].price), thresholdPercent)
    /\ CooldownElapsed(recentAlerts,
           <<priceStore[1].symbol, priceStore[1].exchange, priceStore[2].exchange>>, now)

\* C16: every opportunity that has left the active map has a record in
\* closedOpportunityHistory, and the history holds at most maxHistorySize
\* records.
C16_ClosedKeptInHistory ==
    /\ \A oid \in 1..(nextOid - 1) :
           \/ oid \in ActiveOids(activeOpportunities)
           \/ \E k \in 1..Len(closedOpportunityHistory) :
                  closedOpportunityHistory[k].oid = oid
    /\ Len(closedOpportunityHistory) <= maxHistorySize

\* C17: when a scan has run its checkForClosedOpportunities, an active
\* opportunity (not older than the maximum) whose pair qualifies while its
\* cooldown has not elapsed has been updated in that scan: its lastUpdatedTimestamp
\* is the time of the scan, its spread is the current one, and its peak is not
\* below it.
C17_UpdatedDuringCooldown ==
    \A s \in 1..Len(scans) :
        JustChecked(s) =>
            \A i \in 1..Len(activeOpportunities) :
                LET a == activeOpportunities[i]
                IN  ( /\ VenuesFresh(a, priceStore, now)
                      /\ PctGE(StoreSpread(a, priceStore), thresholdPercent)
                      /\ now - a.openTimestamp <= maxDuration
                      /\ ~CooldownElapsed(recentAlerts,
                             <<a.symbol, a.exchangeA, a.exchangeB>>, now) )
                    => /\ a.lastUpdatedTimestamp = now
                       /\ PctEQ(a.priceDifferencePercent, StoreSpread(a, priceStore))
                       /\ PctGE(a.peakPriceDifferencePercent, StoreSpread(a, priceStore))

C11_ExactCloseThresholdStays ==
    /\ \A c \in InFlightClosed :
           (BothPrices(c) /\ PctEQ(c.closePriceDifferencePercent, closeThresholdPercent))
               => (c.closeReason = "TIMEOUT" /\ c.duration > maxDuration)
    /\ \A s \in 1..Len(scans) :
           (JustChecked(s) /\ sendClosedAlerts) =>
               \A i \in 1..Len(activeOpportunities) :
                   LET a == activeOpportunities[i]
                   IN  ( /\ VenuesFresh(a, priceStore, now)
                         /\ PctEQ(StoreSpread(a, priceStore), closeThresholdPercent)
                         /\ now - a.openTimestamp <= maxDuration )
                       => /\ \A k \in 1..Len(scans[s].closed) :
                                 scans[s].closed[k].oid # a.oid
                          /\ a.lastUpdatedTimestamp = now
                          /\ PctEQ(a.priceDifferencePercent, closeThresholdPercent)

\* a scan has just checked an active opportunity whose spread is exactly the
\* close threshold, and holds no closed record
C11_Witness ==
    \E s \in 1..Len(scans) :
        /\ JustChecked(s)
        /\ sendClosedAlerts
        /\ scans[s].closed = <<>>
        /\ \E i \in 1..Len(activeOpportunities) :
               /\ VenuesFresh(activeOpportunities[i], priceStore, now)
               /\ PctEQ(StoreSpread(activeOpportunities[i], priceStore),
                        closeThresholdPercent)
               /\ PctEQ(activeOpportunities[i].priceDifferencePercent,
                        closeThresholdPercent)

PendingIds(s) ==
    {generateOpportunityId(scans[s].opps[x]) : x \in 1..Len(scans[s].opps)}
SentIds(s) == {scans[s].sent[x] : x \in 1..Len(scans[s].sent)}

\* the cooldown of the pair itself is running
OwnCooldown(id) ==
    \E k \in AlertKeys :
        /\ k[1] = id[1]
        /\ {k[2], k[3]} = {id[2], id[3]}
        /\ ~CooldownElapsed(recentAlerts, k, now)

\* what isValidArbitrageOpportunity asks of the pair itself
Qualifies(o) ==
    /\ o.action # "INVALID"
    /\ PctGE(o.priceDifferencePercent, thresholdPercent)
    /\ o.profit >= minProfitUsd
    /\ CooldownElapsed(recentAlerts, AlertKey(o), now)

\* C19: every pair of fresh venues of a symbol is found once if it qualifies
\* by its own spread, profit and cooldown, and not at all otherwise, whatever
\* holds of the other pairs; the ids a call found are distinct, and each is
\* still to be processed, or has had its own job added, or is held back by
\* the cooldown of that very pair; a job carries the values of one pair and
\* belongs to the active opportunity of that pair's id; the active
\* opportunities have distinct ids.
C19_PairsIndependent ==
    /\ LET f == findArbitrageOpportunities(priceStore, recentAlerts, now)
       IN  \A i, j \in 1..Len(priceStore) :
               ( /\ i < j
                 /\ priceStore[i].symbol = priceStore[j].symbol
                 /\ ~isPriceStale(priceStore, priceStore[i].symbol,
                                  priceStore[i].exchange, now)
                 /\ ~isPriceStale(priceStore, priceStore[j].symbol,
                                  priceStore[j].exchange, now) )
               => LET o == calculateArbitrageOpportunity(
                               priceStore[i], priceStore[j], now)
                      hits == {x \in 1..Len(f) :
                                  /\ f[x].symbol = o.symbol
                                  /\ f[x].exchangeA = o.exchangeA
                                  /\ f[x].exchangeB = o.exchangeB}
                  IN  /\ Cardinality(hits) = IF Qualifies(o) THEN 1 ELSE 0
                      /\ \A x \in hits : f[x] = o
    /\ \A s \in 1..Len(scans) :
           /\ scans[s].pc # "closeLoop"
           /\ \A x, y \in 1..Len(scans[s].found) :
                  x # y => scans[s].found[x] # scans[s].found[y]
           /\ \A x \in 1..Len(scans[s].found) :
                  \/ scans[s].found[x] \in PendingIds(s)
                  \/ scans[s].found[x] \in SentIds(s)
                  \/ OwnCooldown(scans[s].found[x])
           /\ \A id \in SentIds(s) :
                  /\ jobsSinceOpen[id] >= 1
                  /\ lastJobAt[id] = now
                  /\ ActiveIndex(activeOpportunities, id) # 0
    /\ \A x, y \in 1..Len(activeOpportunities) :
           x # y => /\ activeOpportunities[x].id # activeOpportunities[y].id
                    /\ activeOpportunities[x].oid # activeOpportunities[y].oid
    /\ \A x \in 1..Len(arbitrageQueue) :
           LET job == arbitrageQueue[x]
               id == generateOpportunityId(job.data)
               i == ActiveIndex(activeOpportunities, id)
           IN  /\ job.name = "processOpportunity"
               /\ i # 0
               /\ activeOpportunities[i].oid = job.oid
               /\ activeOpportunities[i].exchangeA = job.data.exchangeA
               /\ activeOpportunities[i].exchangeB = job.data.exchangeB
               /\ activeOpportunities[i].priceDifferencePercent =
                      job.data.priceDifferencePercent
               /\ \E s \in 1..Len(scans) :
                      /\ scans[s].sent # <<>>
                      /\ scans[s].sent[Len(scans[s].sent)] = id

\* one call has found three pairs and opened each: its third add is awaited,
\* the three active opportunities have had one job each, the job of their
\* opening by this call
C19_Witness ==
    \E s \in 1..Len(scans) :
        /\ scans[s].pc = "awaitNew"
        /\ scans[s].opps = <<>>
        /\ Len(scans[s].found) = 3
        /\ Len(scans[s].sent) = 3
        /\ Cardinality(SentIds(s)) = 3
        /\ Len(activeOpportunities) = 3
        /\ \A i \in 1..3 :
               /\ activeOpportunities[i].id \in SentIds(s)
               /\ activeOpportunities[i].alertsSent = 1
               /\ jobsSinceOpen[activeOpportunities[i].id] = 1

\* C20: every tick the price store holds has a number above 0 for its price.
C20_StoredPricesValid ==
    \A i \in 1..Len(priceStore) :
        /\ priceStore[i].price # NaN
        /\ priceStore[i].price > 0

\* ------------------------------------------------------- the price store
StoreKey(priceData) == PriceKey(priceData.symbol, priceData.exchange)

\* the puts of a key, in arrival order
PutsFor(key) == SelectSeq(putLog, LAMBDA p : StoreKey(p) = key)

\* the last n elements of a sequence, all of them when it has fewer
LastN(seq, n) ==
    IF Len(seq) <= n THEN seq ELSE SubSeq(seq, Len(seq) - n + 1, Len(seq))

\* C21: getPrice of a key returns the PriceData of the last updatePrice for
\* that key, whatever was put for other keys since, and undefined when
\* there was none.
C21_GetReturnsLastPut ==
    \A key \in StoreKeys :
        getPrice(priceStore, key[1], key[2]) =
            IF PutsFor(key) = <<>> THEN NoPrice
            ELSE PutsFor(key)[Len(PutsFor(key))]

\* a key was put twice with different prices and another key was put after it
C21_Witness ==
    \E key \in StoreKeys :
        /\ Len(PutsFor(key)) >= 2
        /\ PutsFor(key)[Len(PutsFor(key))].price
               # PutsFor(key)[Len(PutsFor(key)) - 1].price
        /\ putLog # <<>>
        /\ StoreKey(putLog[Len(putLog)]) # key
        /\ getPrice(priceStore, key[1], key[2]) = PutsFor(key)[Len(PutsFor(key))]

\* C22: the history of a key holds the last priceMaxHistorySize puts of that
\* key, oldest first and repeats included, and so never more than that many.
C22_HistoryIsLastPuts ==
    \A key \in StoreKeys :
        /\ getPriceHistory(priceHistory, key[1], key[2])
               = LastN(PutsFor(key), priceMaxHistorySize)
        /\ Len(getPriceHistory(priceHistory, key[1], key[2])) <= priceMaxHistorySize

\* a full history that has lost its oldest entries and ends with the same
\* tick twice
C22_Witness ==
    \E key \in StoreKeys :
        LET h == getPriceHistory(priceHistory, key[1], key[2])
        IN  /\ Len(h) = priceMaxHistorySize
            /\ Len(PutsFor(key)) >= priceMaxHistorySize + 2
            /\ h[1] = PutsFor(key)[Len(PutsFor(key)) - priceMaxHistorySize + 1]
            /\ h[Len(h)] = h[Len(h) - 1]

\* C23: a key is stale exactly when it has no price or the age of its price
\* exceeds staleSeconds; at staleSeconds less a millisecond and at staleSeconds
\* it is fresh, a millisecond later it is stale.
C23_StaleBeyondSixtySeconds ==
    \A key \in StoreKeys :
        LET p == getPrice(priceStore, key[1], key[2])
            stale == isPriceStale(priceStore, key[1], key[2], now)
        IN  /\ p = NoPrice => stale
            /\ p # NoPrice =>
                   /\ stale <=> now - p.timestamp > staleSeconds * 1000
                   /\ now - p.timestamp = staleSeconds * 1000 - 1 => ~stale
                   /\ now - p.timestamp = staleSeconds * 1000 => ~stale
                   /\ now - p.timestamp = staleSeconds * 1000 + 1 => stale

\* a price aged exactly staleSeconds, which is fresh
C23_Witness ==
    \E key \in StoreKeys :
        /\ getPrice(priceStore, key[1], key[2]) # NoPrice
        /\ now - getPrice(priceStore, key[1], key[2]).timestamp = staleSeconds * 1000
        /\ ~isPriceStale(priceStore, key[1], key[2], now)

\* ------------------------------------------------------ an exchange adapter
\* the sockets of a symbol that are connecting or open
LiveStreams(symbol) ==
    {id \in 1..Len(sockets) :
        /\ sockets[id].symbol = symbol
        /\ sockets[id].readyState \in {"CONNECTING", "OPEN"}}

\* C24: no socket that was made before a disconnect calls the callback after
\* it.
C24_NoSinkAfterStop ==
    \A id \in 1..Len(sockets) : ~sockets[id].late

\* C25: a symbol never has two sockets connecting or open.
C25_OneLiveStream ==
    \A symbol \in Symbols : Cardinality(LiveStreams(symbol)) <= 1

\* a stream of the symbol has closed or is closing: its timer is pending or
\* its 'close' is still to come
StreamLost(symbol) ==
    \/ timers[symbol] > 0
    \/ \E id \in 1..Len(sockets) :
           sockets[id].symbol = symbol /\ sockets[id].readyState = "CLOSING"

StreamOpen(symbol) ==
    \E id \in 1..Len(sockets) :
        sockets[id].symbol = symbol /\ sockets[id].readyState = "OPEN"

\* C26: when a stream of a symbol has closed or failed while the adapter is
\* initialized, then later a new socket is made, or a stream of the symbol is
\* open, or the adapter is not initialized; and so again after each attempt
\* that fails.
C26_ReconnectsUntilOpenOrStopped ==
    \A symbol \in Symbols : \A n \in SocketIds :
        (StreamLost(symbol) /\ isInitialized /\ Len(sockets) = n)
            ~> (Len(sockets) > n \/ StreamOpen(symbol) \/ ~isInitialized)

\* two attempts failed one after the other and the third is open, with no
\* call of reconnectExchange
C26_Witness ==
    /\ calls = 0
    /\ isInitialized
    /\ Len(sockets) = 3
    /\ sockets[1].readyState = "CLOSED"
    /\ sockets[2].readyState = "CLOSED"
    /\ sockets[3].readyState = "OPEN"
    /\ timers[sockets[3].symbol] = 0

\* ------------------------------------------------ discovery of common pairs
\* the exchanges whose last catalog lists the symbol with quote asset USDT
VenuesListing(symbol) ==
    {exchange \in Exchanges3 :
        /\ catalogs[exchange].ok
        /\ \E i \in DOMAIN catalogs[exchange].symbols :
               catalogs[exchange].symbols[i] = [symbol |-> symbol, quoteAsset |-> "USDT"]}

\* C27: after a discovery the pairs found are, each once, the symbols that at
\* least minExchangeCount exchanges list with quote asset USDT.
C27_DiscoveredAreCommon ==
    discoveries > 0 =>
        /\ \A symbol \in CatalogSymbols :
               symbol \in Elements(commonPairs)
                   <=> Cardinality(VenuesListing(symbol)) >= minExchangeCount
        /\ \A i, j \in DOMAIN commonPairs : commonPairs[i] = commonPairs[j] => i = j

\* a symbol on exactly minExchangeCount exchanges is found, one on fewer is not
C27_Witness ==
    /\ discoveries > 0
    /\ Cardinality(VenuesListing("BTC/USDT")) = minExchangeCount
    /\ "BTC/USDT" \in Elements(commonPairs)
    /\ Cardinality(VenuesListing("ETH/USDT")) = minExchangeCount - 1
    /\ "ETH/USDT" \notin Elements(commonPairs)

\* the symbols of the catalogs in lexicographic order
SymbolOrder == <<"BTC/USDT", "ETH/BTC", "ETH/USDT">>
SymbolRank(symbol) == CHOOSE i \in DOMAIN SymbolOrder : SymbolOrder[i] = symbol

\* C28: the pairs found stand by falling number of exchanges and, where that
\* number is equal, in lexicographic order.
C28_SortedByCountThenName ==
    \A i, j \in DOMAIN commonPairs :
        i < j =>
            \/ Cardinality(VenuesListing(commonPairs[i]))
                   > Cardinality(VenuesListing(commonPairs[j]))
            \/ /\ Cardinality(VenuesListing(commonPairs[i]))
                      = Cardinality(VenuesListing(commonPairs[j]))
               /\ SymbolRank(commonPairs[i]) < SymbolRank(commonPairs[j])

\* C29: after a discovery that found no pair, tradingPairs is the list of the
\* configuration.
C29_EmptyFallsBackToConfig ==
    (discoveries > 0 /\ commonPairs = <<>>) => exchangeTradingPairs = tradingPairs

\* C30: a refresh leaves every pair that entered tradingPairs subscribed and
\* every pair that left it not subscribed; and when the Sets of
\* discoveredSymbols are what they were, tradingPairs and the subscriptions
\* are what they were.
C30_RefreshFollowsTheDiff ==
    [][discoveries' > discoveries /\ discoveries > 0 =>
          /\ \A symbol \in Elements(exchangeTradingPairs') \ Elements(exchangeTradingPairs) :
                 symbol \in Elements(subscribed')
          /\ \A symbol \in Elements(exchangeTradingPairs) \ Elements(exchangeTradingPairs') :
                 symbol \notin Elements(subscribed')
          /\ discoveredSymbols' = discoveredSymbols =>
                 /\ exchangeTradingPairs' = exchangeTradingPairs
                 /\ subscribed' = subscribed]_vars

\* ------------------------------------------- the discovery and the scans
\* two venues hold fresh prices of the symbol whose spread and profit reach
\* the thresholds, and no cooldown of theirs runs
FreshQualifying(symbol) ==
    \E i, j \in 1..Len(priceStore) :
        /\ i < j
        /\ priceStore[i].symbol = symbol
        /\ priceStore[j].symbol = symbol
        /\ ~isPriceStale(priceStore, symbol, priceStore[i].exchange, now)
        /\ ~isPriceStale(priceStore, symbol, priceStore[j].exchange, now)
        /\ LET o == calculateArbitrageOpportunity(priceStore[i], priceStore[j], now)
           IN  /\ o.action # "INVALID"
               /\ PctGE(o.priceDifferencePercent, thresholdPercent)
               /\ o.profit >= minProfitUsd
               /\ symbol \in Symbols => CooldownElapsed(recentAlerts, AlertKey(o), now)

\* C31: when a scan runs findArbitrageOpportunities, every pair of
\* ExchangeService.tradingPairs that is subscribed and has two fresh prices
\* that qualify is among the opportunities it finds.
C31_ScanCoversActiveSet ==
    [][\A s \in 1..MaxScans3 :
          (s <= Len(scans) /\ running = s /\ scans[s].pc = "find" /\ scans' # scans) =>
              \A symbol \in Elements(exchangeTradingPairs) \cap Elements(subscribed) :
                  FreshQualifying(symbol) =>
                      /\ Len(scans') = Len(scans)
                      /\ \E x \in 1..Len(scans'[s].found) :
                             scans'[s].found[x][1] = symbol]_vars

\* ------------------------------------------------- failure notifications
\* an earlier call of the same adapter with the same type and message sent an
\* alert less than failureCooldownMs before call j
SentWithinCooldown(j) ==
    \E i \in 1..(j - 1) :
        /\ notifyLog[i].venue = notifyLog[j].venue
        /\ notifyLog[i].type = notifyLog[j].type
        /\ notifyLog[i].message = notifyLog[j].message
        /\ notifyLog[i].sent
        /\ notifyLog[j].timestamp - notifyLog[i].timestamp < failureCooldownMs

\* C32: a call of notifyFailure sends no alert when its adapter sent one for
\* the same type and message less than failureCooldownMs before, and sends one
\* in every other case.
C32_NotifyOncePerCooldown ==
    \A j \in 1..Len(notifyLog) : notifyLog[j].sent <=> ~SentWithinCooldown(j)

\* an alert, a call a millisecond before the cooldown ends that sends nothing,
\* and a call with another message that sends
C32_Witness ==
    \E i, j, k \in 1..Len(notifyLog) :
        /\ i < j /\ i < k
        /\ notifyLog[i].sent
        /\ notifyLog[j].venue = notifyLog[i].venue
        /\ notifyLog[j].message = notifyLog[i].message
        /\ notifyLog[j].timestamp = notifyLog[i].timestamp + failureCooldownMs - 1
        /\ ~notifyLog[j].sent
        /\ notifyLog[k].venue = notifyLog[i].venue
        /\ notifyLog[k].message # notifyLog[i].message
        /\ notifyLog[k].timestamp = notifyLog[j].timestamp
        /\ notifyLog[k].sent

\* ------------------------------------------------------- the health check
Occurrences(seq, x) == Cardinality({i \in DOMAIN seq : seq[i] = x})

\* the adapter was connected with a connection when the last health check
\* read it
WasHealthy(venue) ==
    probe.before[venue].isInitialized /\ probe.before[venue].connectionCount > 0

\* C33: a health check lists every adapter that was not connected or had no
\* connection once as failed and calls reconnectExchange for it once, and
\* lists every other adapter once as working and calls nothing for it, also
\* when calls of reconnectExchange threw.
C33_ProbeReconnectsEachFailedOnce ==
    probes > 0 =>
        \A venue \in ProbeVenues :
            IF WasHealthy(venue)
            THEN /\ Occurrences(probe.working, venue) = 1
                 /\ Occurrences(probe.failed, venue) = 0
                 /\ Occurrences(probe.reconnects, venue) = 0
            ELSE /\ Occurrences(probe.working, venue) = 0
                 /\ Occurrences(probe.failed, venue) = 1
                 /\ Occurrences(probe.reconnects, venue) = 1

\* the reconnect of the first exchange threw, the second was working and the
\* third, initialized but without a connection, was reconnected
C33_Witness ==
    /\ probes > 0
    /\ probe.throws = {ProbeOrder[1]}
    /\ probe.before[ProbeOrder[1]].isInitialized
    /\ probe.before[ProbeOrder[1]].connectionCount = 0
    /\ WasHealthy(ProbeOrder[2])
    /\ probe.before[ProbeOrder[3]].isInitialized
    /\ probe.before[ProbeOrder[3]].connectionCount = 0
    /\ probe.reconnects = <<ProbeOrder[1], ProbeOrder[3]>>
    /\ probe.working = <<ProbeOrder[2]>>

\* the opportunities a scan fed with PricesClose can open for the venues of c:
\* those of two delivered prices that isValidArbitrageOpportunity accepts by
\* spread and profit
OpeningQuotes(c) ==
    {o \in {calculateArbitrageOpportunity(
                [symbol |-> c.symbol, exchange |-> c.exchangeA, price |-> pa],
                [symbol |-> c.symbol, exchange |-> c.exchangeB, price |-> pb], 0) :
                    pa \in PricesClose[c.exchangeA], pb \in PricesClose[c.exchangeB]} :
        /\ PctGE(o.priceDifferencePercent, thresholdPercent)
        /\ o.profit >= minProfitUsd}

\* C34: the opening fields of a closed record (open prices, open spread, open
\* profit) are the values of the scan that opened the opportunity, however
\* many updates it received: they are those of an opportunity that a scan
\* could open.
C34_OpenFieldsFromOpeningScan ==
    \A c \in InFlightClosed :
        \E o \in OpeningQuotes(c) :
            /\ c.openPriceA = o.priceA
            /\ c.openPriceB = o.priceB
            /\ c.openPriceDifference = o.priceDifference
            /\ c.openPriceDifferencePercent = o.priceDifferencePercent
            /\ c.openProfit = o.profit

\* the active map as the resolved add of scan s leaves it
MapAfterAdd(s) ==
    IF scans[s].pc = "awaitUpdate"
    THEN IncrementAlerts(activeOpportunities, scans[s].target)
    ELSE IF scans[s].pc = "awaitClose"
    THEN ActiveDelete(activeOpportunities, scans[s].cur[1].id)
    ELSE activeOpportunities

\* C35: a rejected add does not end the scan (it goes on with its next
\* opportunity or returns as after a resolved add), and it leaves the active
\* map with the ids and the fields, alertsSent included, that the resolved add
\* would have left.
C35_FailedAddLeavesMapAsSuccess ==
    [][\A s \in 1..Len(scans) :
           (ProcAddFailed(s) \/ CloseAddFailed(s)) =>
               activeOpportunities' = MapAfterAdd(s)]_vars

\* C36: the direction of an active opportunity is the one of its current
\* prices: BUY_A_SELL_B exactly when priceA < priceB, else BUY_B_SELL_A, also
\* after an update that found the other venue the cheaper one.
C36_DirectionFollowsPrices ==
    \A i \in 1..Len(activeOpportunities) :
        LET a == activeOpportunities[i]
        IN  (a.priceA # NullNum /\ a.priceB # NullNum) =>
                a.action = IF a.priceA < a.priceB THEN "BUY_A_SELL_B"
                           ELSE "BUY_B_SELL_A"

\* ------------------------------------------- reopening within the cooldown
\* the opportunities of two fresh prices of one symbol in the store that reach
\* thresholdPercent and minProfitUsd while their id is not active
OpenableNow ==
    {o \in {calculateArbitrageOpportunity(priceStore[i], priceStore[j], now) :
                i, j \in 1..Len(priceStore)} :
        /\ \E i, j \in 1..Len(priceStore) :
               /\ i < j
               /\ priceStore[i].symbol = priceStore[j].symbol
               /\ o = calculateArbitrageOpportunity(priceStore[i], priceStore[j], now)
               /\ ~isPriceStale(priceStore, o.symbol, o.exchangeA, now)
               /\ ~isPriceStale(priceStore, o.symbol, o.exchangeB, now)
        /\ o.action # "INVALID"
        /\ PctGE(o.priceDifferencePercent, thresholdPercent)
        /\ o.profit >= minProfitUsd
        /\ ActiveIndex(activeOpportunities, generateOpportunityId(o)) = 0}

\* C37: when a scan runs findArbitrageOpportunities, every pair of fresh
\* prices that reaches the threshold and the minimum profit and whose id is
\* not active is found, and so goes on to be created in that scan, also while
\* the cooldown of an earlier alert of that id runs.
C37_QualifyingPairOpenedInScan ==
    [][\A s \in 1..MaxScans :
          (s <= Len(scans) /\ running = s /\ scans[s].pc = "find" /\ scans' # scans) =>
              \A o \in OpenableNow :
                  /\ Len(scans') = Len(scans)
                  /\ \E x \in 1..Len(scans'[s].found) :
                         scans'[s].found[x] = generateOpportunityId(o)]_vars

\* ---------------------------------------------------- the jobs of the scans
\* the processOpportunity jobs in the queue
OpportunityJobs ==
    {arbitrageQueue[k] : k \in {x \in 1..Len(arbitrageQueue) :
                                    arbitrageQueue[x].name = "processOpportunity"}}

\* C38: every processOpportunity job carries two prices, a spread and a profit
\* that are numbers, a direction other than INVALID, a spread of at least
\* thresholdPercent and a profit of at least minProfitUsd, spread, profit and
\* direction being the ones of the two prices it carries, which the scan that
\* added it read.
C38_JobsCarryQualifyingValues ==
    \A job \in OpportunityJobs :
        LET o == job.data
        IN  /\ o.priceA # NullNum /\ o.priceB # NullNum
            /\ o.priceDifference # NullNum /\ o.profit # NullNum
            /\ o.priceDifferencePercent # NullPct
            /\ o.action # "INVALID"
            /\ PctGE(o.priceDifferencePercent, thresholdPercent)
            /\ o.profit >= minProfitUsd
            /\ o.priceA \in PricesClose[o.exchangeA]
            /\ o.priceB \in PricesClose[o.exchangeB]
            /\ o.priceDifference = Abs(o.priceA - o.priceB)
            /\ o.priceDifferencePercent =
                   Percent(200 * o.priceDifference, o.priceA + o.priceB)
            /\ o.profit = o.priceDifference * tradeSize
            /\ \E s \in 1..Len(scans) :
                   /\ scans[s].pc \in {"awaitUpdate", "awaitNew"}
                   /\ scans[s].opp = <<o>>

\* the job of an update of an opportunity opened at an earlier time is in the
\* queue
C38_Witness ==
    \E job \in OpportunityJobs :
        \E i \in 1..Len(activeOpportunities) :
            /\ activeOpportunities[i].oid = job.oid
            /\ activeOpportunities[i].lastUpdatedTimestamp
                   > activeOpportunities[i].openTimestamp

\* C39: in every closed record the peak spread is at least the opening spread
\* and at least the closing spread, whatever the close reason.
C39_PeakBoundsOpenAndClose ==
    \A c \in InFlightClosed :
        /\ PctGE(c.peakPriceDifferencePercent, c.openPriceDifferencePercent)
        /\ PctGE(c.peakPriceDifferencePercent, c.closePriceDifferencePercent)

\* ------------------------------------------------------- closing only once
\* the opened opportunities for which call s of detectArbitrageOpportunities
\* holds a closed record
ClosedOidsOf(s) ==
    {scans[s].closed[k].oid : k \in 1..Len(scans[s].closed)}
        \cup {scans[s].cur[k].oid : k \in 1..Len(scans[s].cur)}

\* C40: an opened opportunity is closed at most once: no two calls of
\* detectArbitrageOpportunities make a closed record of it, and the history
\* holds at most one record of it.
C40_ClosedAtMostOnce ==
    /\ \A s1, s2 \in 1..Len(scans) :
           s1 # s2 => ClosedOidsOf(s1) \cap ClosedOidsOf(s2) = {}
    /\ \A k1, k2 \in 1..Len(closedOpportunityHistory) :
           k1 # k2 => closedOpportunityHistory[k1].oid # closedOpportunityHistory[k2].oid

====
